---- MODULE Spec2Model ----
(***************************************************************************)
(* The inference orchestrator of webapp/app.py (run_segmentation and the   *)
(* lazy load_models it calls) as a state machine.  Two calls, A and B,     *)
(* run concurrently against the process-wide globals grounding_dino,       *)
(* sam_predictor, device and models_loaded; each call walks through the    *)
(* statements of run_segmentation one stage at a time.  The detector, the  *)
(* segmenter, OpenCV, the file system and the accelerator runtime are      *)
(* external: each of their calls is a choice over the outcomes the call    *)
(* can have (a value, an empty value, an exception).                       *)
(***************************************************************************)
EXTENDS Integers, Sequences, FiniteSets, TLC

None == "None"

\* The two concurrent run_segmentation calls; each carries its own image,
\* identified by the call's name.
Calls == {"A", "B"}

\* The most boxes one detector call returns in the model.
MaxBoxes == 2

\* app.py:74  max_size = 10 * 1024 * 1024
max_size == 10 * 1024 * 1024

\* app.py:104  max_dim = 2048
max_dim == 2048

\* len(image_bytes) of the inputs tried: empty, at the ceiling, above it.
ByteLens == {0, max_size, max_size + 1}

\* Prompts as character sequences: empty, whitespace only, text with a
\* trailing blank.
Prompts == {<< >>, <<" ", " ">>, <<"a", " ">>}

\* What cv2.imdecode can hand back: None (undecodable, written NoImage) or an
\* array whose shape[:2] is <<height, width>>.
NoImage == << >>
Shapes == {<<0, 0>>, <<50, 50>>, <<1500, 3000>>, <<5000, 1>>}
Decoded == {NoImage} \cup Shapes

\* Boxes are <<x1, y1, x2, y2>> in pixels; the detector's i-th box.
BoxAt(i) == <<10 * (i - 1), 10 * (i - 1), 10 * (i - 1) + 5, 10 * (i - 1) + 3>>

\* What predict_with_caption can hand back: None for detections, or
\* detections whose xyxy is a list of up to MaxBoxes boxes.
NoneDetections == [is |-> "None", xyxy |-> << >>]
UnsetDetections == [is |-> "unset", xyxy |-> << >>]
DetectorResults ==
    {NoneDetections} \cup
    {[is |-> "boxes", xyxy |-> [i \in 1..n |-> BoxAt(i)]] : n \in 0..MaxBoxes}

VARIABLES
    TORCH_AVAILABLE,   \* app.py:10-16
    cuda_available,    \* torch.cuda.is_available()
    grounding_dino,    \* app.py:18
    sam_predictor,     \* app.py:19
    device,            \* app.py:20
    models_loaded,     \* app.py:21
    model_loader,      \* the model_loader module: imported yet, and its exports
    primed,            \* the image the shared SamPredictor currently holds
    pc,                \* each call's position in run_segmentation
    image_bytes,       \* len(image_bytes) of each call
    prompt,            \* each call's prompt
    shape,             \* <<height, width>> of each call's source_image
    detections,        \* detections.xyxy of each call
    predicts,          \* the sam_predictor.predict calls each call has made
    masks,             \* how each call's primary and fallback predict ended
    mask_of,           \* the image each call's mask was computed against
    counts,            \* per call: how often each stage has run
    written,           \* the files each call has put on disk
    unique_id,         \* each call's unique_id (app.py:213), 0 before it is drawn
    issued,            \* the values uuid.uuid4() has returned in this process, in order
    released,          \* how often each call completed the cache release
    result,            \* what each call gave its caller
    steps,             \* the stages each call has entered, in order, with the image given to each
    resize,            \* the downscaling step applied to one shape on its own
    host,              \* what is installed and what the vendored directories hold
    sys_path,          \* the vendored directories that are on sys.path
    GroundingDINO,     \* model_loader.GroundingDINO
    sam_model_registry, \* model_loader.sam_model_registry
    SamPredictor,      \* model_loader.SamPredictor
    import_calls,      \* the last two calls of the import functions and how they ended
    on_disk,           \* each checkpoint file on disk: absent, partial or complete
    config,            \* whether find_config_file finds GroundingDINO_SwinT_OGC.py
    setup,             \* the asset-setup call in progress and what it has done
    route,             \* per caller: the /segment request it serves and its answer
    registry,          \* the keys of the sam_model_registry dict, in their order
    load_call,         \* the last call of a model-construction function and how it ended
    health,            \* the /health request being served and its response
    boot               \* the run of model_loader's module-level code, and the load_models call behind it

globals == <<grounding_dino, sam_predictor, device, models_loaded, model_loader>>
env     == <<TORCH_AVAILABLE, cuda_available>>
input   == <<image_bytes, prompt>>
vars == <<TORCH_AVAILABLE, cuda_available, grounding_dino, sam_predictor, device,
          models_loaded, model_loader, primed, pc, image_bytes, prompt, shape,
          detections, predicts, masks, mask_of, counts, written, unique_id, issued,
          released, result, steps, resize, host, sys_path, GroundingDINO, sam_model_registry,
          SamPredictor, import_calls, on_disk, config, setup, route, registry,
          load_call, boot, health>>

\* What a call has saved, and under which identifier.
persisted == <<written, unique_id, issued>>

\* The state that run_segmentation and load_models never touch.
imports == <<host, sys_path, GroundingDINO, sam_model_registry, SamPredictor, import_calls>>
assets == <<on_disk, config, setup>>
loaders == <<registry, load_call, boot, health>>
aside == <<resize, imports, assets, route, loaders>>

NoCounts == [load |-> 0, decode |-> 0, detect |-> 0, set_image |-> 0, persist |-> 0,
             rectangles |-> 0, labels |-> 0]
NoMasks == [primary |-> "unset", fallback |-> "unset"]

\* Call p enters the stage op and hands it the image of this shape.
Did(p, op, image) == steps' = [steps EXCEPT ![p] = Append(@, [op |-> op, image |-> image])]

AppIdle ==
    /\ grounding_dino = None
    /\ sam_predictor = None
    /\ device = None
    /\ models_loaded = FALSE
    /\ model_loader = [imported |-> FALSE, grounding_dino |-> None,
                       sam_predictor |-> None, device |-> None]
    /\ primed = None
    /\ pc = [p \in Calls |-> "idle"]
    /\ image_bytes = [p \in Calls |-> 0]
    /\ prompt = [p \in Calls |-> << >>]
    /\ shape = [p \in Calls |-> NoImage]
    /\ detections = [p \in Calls |-> UnsetDetections]
    /\ predicts = [p \in Calls |-> << >>]
    /\ masks = [p \in Calls |-> NoMasks]
    /\ mask_of = [p \in Calls |-> None]
    /\ counts = [p \in Calls |-> NoCounts]
    /\ written = [p \in Calls |-> {}]
    /\ unique_id = [p \in Calls |-> 0]
    /\ issued = << >>
    /\ released = [p \in Calls |-> 0]
    /\ result = [p \in Calls |-> "pending"]
    /\ steps = [p \in Calls |-> << >>]

AppInit ==
    /\ TORCH_AVAILABLE \in BOOLEAN
    /\ cuda_available \in {c \in BOOLEAN : c => TORCH_AVAILABLE}
    /\ AppIdle

ResizeIdle == resize = [from |-> NoImage, to |-> NoImage, is |-> "idle"]

\* model_loader.py:18-19, 107-111, 170: the vendored directories.
GROUNDING_DINO_DIR == "webapp/GroundingDINO"
MOBILE_SAM_DIR == "webapp/MobileSAM"

possible_paths == <<GROUNDING_DINO_DIR,
                    "webapp/GroundingDINO/groundingdino",
                    "webapp/GroundingDINO/GroundingDINO/groundingdino">>

Dirs == {possible_paths[i] : i \in 1..Len(possible_paths)} \cup {MOBILE_SAM_DIR}

\* model_loader.py:86-90 and the module each variation is asked for at line 98.
package_variations == <<"groundingdino", "GroundingDINO", "grounding_dino">>

InferenceModule == [groundingdino  |-> "groundingdino.util.inference",
                    GroundingDINO  |-> "GroundingDINO.util.inference",
                    grounding_dino |-> "grounding_dino.util.inference"]

NoCall == [op |-> "none", ret |-> FALSE, set |-> <<FALSE, FALSE, FALSE>>,
           tried |-> << >>, help |-> FALSE]

\* model_loader.py:32-34, on a host where nothing is installed or vendored.
ImportsIdle ==
    /\ host = [site |-> {}, dirs |-> {}, provides |-> [d \in Dirs |-> {}]]
    /\ sys_path = {}
    /\ GroundingDINO = None
    /\ sam_model_registry = None
    /\ SamPredictor = None
    /\ import_calls = [prev |-> NoCall, last |-> NoCall]

\* model_loader.py:277, 297: the two checkpoint destinations.
Checkpoints == {"groundingdino_swint_ogc.pth", "mobile_sam.pt"}

NoSetup == [op |-> "none", pc |-> "idle", dest |-> "none", max_retries |-> 0, attempt |-> 0,
            before |-> "absent", fetched |-> << >>, got |-> "pending", ret |-> "pending"]

AssetsIdle ==
    /\ on_disk = [f \in Checkpoints |-> "absent"]
    /\ config = FALSE
    /\ setup = NoSetup

NoAnswer == [success |-> FALSE, error |-> "", paths |-> FALSE]

NoLoad == [op |-> "none", sam_type |-> "", fails |-> "none", variant |-> None, ret |-> None]

\* model_loader is not in sys.modules and load_models has not been called.
NoBoot == [pc |-> "idle", call |-> "idle", ret |-> FALSE, DEVICE |-> None, probe |-> "none",
           probes |-> 0, loads |-> 0, reads |-> << >>,
           grounding_dino_model |-> None, sam_predictor |-> None,
           grounding_dino_available |-> FALSE, mobile_sam_available |-> FALSE,
           grounding_dino_files_ready |-> FALSE, grounding_dino_config_path |-> FALSE,
           mobile_sam_files_ready |-> FALSE, ran |-> << >>]

\* No /health request is being served.
NoHealth == [pc |-> "idle", ret |-> "none", status |-> "none",
             models_loaded |-> [grounding_dino |-> FALSE, sam_predictor |-> FALSE]]

LoadersIdle ==
    /\ registry = << >>
    /\ load_call = NoLoad
    /\ boot = NoBoot
    /\ health = NoHealth

\* No /segment request is being served.
RouteIdle == route = [p \in Calls |-> [pc |-> "idle", returned |-> "pending", response |-> NoAnswer]]

Init == AppInit /\ ResizeIdle /\ ImportsIdle /\ AssetsIdle /\ RouteIdle /\ LoadersIdle

----
\* str.strip(): drop leading and trailing whitespace.
RECURSIVE LStrip(_)
LStrip(s) == IF s # << >> /\ Head(s) = " " THEN LStrip(Tail(s)) ELSE s

RECURSIVE RStrip(_)
RStrip(s) == IF s # << >> /\ s[Len(s)] = " " THEN RStrip(SubSeq(s, 1, Len(s) - 1)) ELSE s

Strip(s) == RStrip(LStrip(s))

\* How many identifiers a process draws.
MaxIds == 2

uuid4Again(drawn) == 1

\* app.py:213 uuid.uuid4(): a random 122-bit value, taken as one that no
\* earlier call in the process was given; identifiers are only ever compared
\* for equality, so the n-th value drawn is written n.
uuid4(drawn) == Len(drawn) + 1

\* A file name that was never built.
NoFilename(id) == None

\* app.py:214-215: the two file names, strings built from the identifier.
original_filename(id) == "original_" \o ToString(id) \o ".jpg"

result_filename(id) == "result_" \o ToString(id) \o ".jpg"

\* app.py:126, 157, 187, 191, 238, 246: the tuple a return statement hands
\* back, by which of its two components are None.
Returned(original, generated) ==
    IF original = None /\ generated = None THEN "NoneNone"
    ELSE IF original # None /\ generated # None THEN "Pair"
    ELSE IF original = None THEN "NonePath"
    ELSE "PathNone"

\* app.py:214-215: the two paths a call builds from its identifier.
PathsOf(id) == {<<"static/images", id, "original">>, <<"static/GeneratedImages", id, "result">>}

\* The process takes a call only while an identifier remains for it: those
\* already drawn and the calls under way together stay under MaxIds.
Admits == Len(issued) + Cardinality({q \in Calls : pc[q] # "idle"}) < MaxIds

\* The caller invokes run_segmentation(image_bytes, prompt).
Call(p) ==
    /\ pc[p] = "idle"
    /\ Admits
    /\ \E n \in ByteLens, t \in Prompts :
        /\ image_bytes' = [image_bytes EXCEPT ![p] = n]
        /\ prompt' = [prompt EXCEPT ![p] = t]
    /\ pc' = [pc EXCEPT ![p] = "validate"]
    /\ UNCHANGED <<aside, steps, env, globals, primed, shape, detections, predicts, masks, mask_of,
                   counts, persisted, released, result>>

\* app.py:67-79: the checks that raise ValueError before any model is touched.
InputRejected(n, t) ==
    \/ n = 0
    \/ t = << >>
    \/ Strip(t) = << >>
    \/ n > max_size

Validate(p) ==
    /\ pc[p] = "validate"
    /\ Did(p, "validate", NoImage)
    /\ pc' = [pc EXCEPT ![p] =
                IF InputRejected(image_bytes[p], prompt[p]) \/ ~TORCH_AVAILABLE
                THEN "except" ELSE "load"]
    /\ UNCHANGED <<aside, env, globals, primed, input, shape, detections, predicts,
                   masks, mask_of, counts, persisted, released, result>>

ModelsReadyNever == FALSE

\* app.py:23-52 load_models(), returning ret.  The import at line 33 runs the
\* model_loader module the first time (its bootstrap may raise, or leave either
\* export None) and reads the cached module afterwards; the cache release at
\* lines 43-45 sits inside the try, after the globals are assigned.
ModelsReady == models_loaded /\ grounding_dino # None /\ sam_predictor # None

DeviceTag == IF cuda_available THEN "cuda" ELSE "cpu"

AssignGlobals(m) ==
    /\ grounding_dino' = m.grounding_dino
    /\ sam_predictor' = m.sam_predictor
    /\ device' = m.device
    /\ models_loaded' = TRUE

LoadModels(ret) ==
    IF ModelsReady
    THEN ret = TRUE /\ UNCHANGED globals
    ELSE \/ /\ model_loader.imported
            /\ AssignGlobals(model_loader)
            /\ UNCHANGED model_loader
            /\ ret \in {r \in BOOLEAN : ~r => cuda_available}
         \/ /\ ~model_loader.imported
            /\ TORCH_AVAILABLE
            /\ \E gd \in {None, "detector"}, sp \in {None, "segmenter"} :
                 model_loader' = [imported |-> TRUE, grounding_dino |-> gd,
                                  sam_predictor |-> sp, device |-> DeviceTag]
            /\ AssignGlobals(model_loader')
            /\ ret \in {r \in BOOLEAN : ~r => cuda_available}
         \/ /\ ~model_loader.imported
            /\ ret = FALSE
            /\ UNCHANGED globals

\* app.py:82-89
EnsureModels(p) ==
    /\ pc[p] = "load"
    /\ Did(p, "ready", NoImage)
    /\ \E ret \in BOOLEAN :
        /\ LoadModels(ret)
        /\ pc' = [pc EXCEPT ![p] =
                    IF ret /\ grounding_dino' # None /\ sam_predictor' # None
                    THEN "decode" ELSE "except"]
    /\ counts' = [counts EXCEPT ![p].load = @ + 1]
    /\ UNCHANGED <<aside, env, primed, input, shape, detections, predicts, masks, mask_of,
                   persisted, released, result>>

\* app.py:92-101: cv2.imdecode and the two checks on its result.
DecodeRejected(d) == d = NoImage \/ d[1] = 0 \/ d[2] = 0

Decode(p) ==
    /\ pc[p] = "decode"
    /\ counts' = [counts EXCEPT ![p].decode = @ + 1]
    /\ \E d \in Decoded :
        /\ Did(p, "decode", d)
        /\ IF DecodeRejected(d)
           THEN pc' = [pc EXCEPT ![p] = "except"] /\ UNCHANGED shape
           ELSE pc' = [pc EXCEPT ![p] = "resize"] /\ shape' = [shape EXCEPT ![p] = d]
    /\ UNCHANGED <<aside, env, globals, primed, input, detections, predicts, masks, mask_of,
                   persisted, released, result>>

\* Python floats are IEEE-754 doubles: Mantissa significant bits, every
\* operation rounded half-to-even.  A double is written bits * 2^-places, its
\* bits least significant first.  Long division and multiplication go Limb
\* bits at a time.
Mantissa == 53

Limb == 9

Base == 2 ^ Limb

Reverse(s) == [i \in 1..Len(s) |-> s[Len(s) + 1 - i]]

RECURSIVE BitsValue(_)
BitsValue(b) == IF b = << >> THEN 0 ELSE Head(b) + 2 * BitsValue(Tail(b))

\* b + 1
BitsInc(b) ==
    IF \A i \in 1..Len(b) : b[i] = 1
    THEN [i \in 1..(Len(b) + 1) |-> IF i = Len(b) + 1 THEN 1 ELSE 0]
    ELSE LET k == CHOOSE i \in 1..Len(b) : b[i] = 0 /\ \A j \in 1..(i - 1) : b[j] = 1
         IN  [i \in 1..Len(b) |-> IF i < k THEN 0 ELSE IF i = k THEN 1 ELSE b[i]]

\* b without the zeros above its most significant 1
Trim(b) ==
    LET ones == {i \in 1..Len(b) : b[i] = 1}
    IN  IF ones = {} THEN << >>
        ELSE SubSeq(b, 1, CHOOSE i \in ones : \A j \in ones : j <= i)

LimbsToBits(l) ==
    [j \in 1..(Len(l) * Limb) |-> (l[((j - 1) \div Limb) + 1] \div 2 ^ ((j - 1) % Limb)) % 2]

BitsToLimbs(b) ==
    [k \in 1..((Len(b) + Limb - 1) \div Limb) |->
        BitsValue(SubSeq(b, (k - 1) * Limb + 1,
                         IF k * Limb <= Len(b) THEN k * Limb ELSE Len(b)))]

\* The bits b rounded to their Mantissa most significant bits; sticky says
\* that something nonzero lies below b.
RoundBits(b, sticky) ==
    LET t == Len(b) - Mantissa
    IN  IF t <= 0 THEN [bits |-> b, drop |-> 0]
        ELSE LET kept  == SubSeq(b, t + 1, Len(b))
                 guard == b[t]
                 rest  == sticky \/ \E i \in 1..(t - 1) : b[i] = 1
                 up    == guard = 1 /\ (rest \/ kept[1] = 1)
             IN  [bits |-> IF up THEN BitsInc(kept) ELSE kept, drop |-> t]

\* The binary expansion of r / m for 0 < r < m: the zero places before its
\* first 1, r moved past them, and the next n limbs, most significant first.
RECURSIVE LeadingZeros(_, _)
LeadingZeros(r, m) == IF 2 * r >= m THEN 0 ELSE 1 + LeadingZeros(2 * r, m)

RECURSIVE Shifted(_, _, _)
Shifted(r, m, z) == IF z = 0 THEN r ELSE Shifted(2 * r, m, z - 1)

RECURSIVE DivLimbs(_, _, _)
DivLimbs(r, m, n) ==
    IF n = 0 THEN [limbs |-> << >>, rem |-> r]
    ELSE LET rest == DivLimbs((r * Base) % m, m, n - 1)
         IN  [limbs |-> <<(r * Base) \div m>> \o rest.limbs, rem |-> rest.rem]

\* num / m as a double, for integers 0 < num < m.
FloatDiv(num, m) ==
    LET z == LeadingZeros(num, m)
        q == DivLimbs(Shifted(num, m, z), m, (Mantissa + 1) \div Limb)
        r == RoundBits(LimbsToBits(Reverse(q.limbs)), q.rem > 0)
    IN  [bits |-> r.bits, places |-> z + Mantissa + 1 - r.drop]

RECURSIVE MulLimbs(_, _, _)
MulLimbs(l, d, carry) ==
    IF l = << >>
    THEN IF carry = 0 THEN << >> ELSE <<carry % Base>> \o MulLimbs(l, d, carry \div Base)
    ELSE LET v == d * Head(l) + carry
         IN  <<v % Base>> \o MulLimbs(Tail(l), d, v \div Base)

MulBits(b, d) == Trim(LimbsToBits(MulLimbs(BitsToLimbs(b), d, 0)))

\* int(d * x) for an integer d >= 0 and a double x: the product is rounded to
\* a double and then truncated.
TruncMul(d, x) ==
    LET p == RoundBits(MulBits(x.bits, d), FALSE)
        s == x.places - p.drop
    IN  IF s >= Len(p.bits) THEN 0 ELSE BitsValue(SubSeq(p.bits, s + 1, Len(p.bits)))

Max(a, b) == IF a >= b THEN a ELSE b

\* app.py:106-108: scale = max_dim / max(height, width); int(d * scale).
ScaledDim(d, m) == TruncMul(d, FloatDiv(max_dim, m))

NeedsResize(s) == Max(s[1], s[2]) > max_dim

Resized(s) ==
    IF NeedsResize(s)
    THEN <<ScaledDim(s[1], Max(s[1], s[2])), ScaledDim(s[2], Max(s[1], s[2]))>>
    ELSE s

\* app.py:104-113; cv2.resize raises on a target size with a zero dimension.
Resize(p) ==
    /\ pc[p] = "resize"
    /\ LET s == Resized(shape[p])
       IN  IF s[1] = 0 \/ s[2] = 0
           THEN pc' = [pc EXCEPT ![p] = "except"] /\ UNCHANGED shape
           ELSE pc' = [pc EXCEPT ![p] = "detect"] /\ shape' = [shape EXCEPT ![p] = s]
    /\ IF NeedsResize(shape[p]) THEN Did(p, "resize", shape[p]) ELSE UNCHANGED steps
    /\ UNCHANGED <<aside, env, globals, primed, input, detections, predicts, masks, mask_of,
                   counts, persisted, released, result>>

NoDetectionNoneOnly(d) == d.is = "None"

\* app.py:124
NoDetection(d) == d.is = "None" \/ Len(d.xyxy) = 0

\* app.py:116-128: the one detector call and the zero-detection return.
Detect(p) ==
    /\ pc[p] = "detect"
    /\ Did(p, "detect", shape[p])
    /\ counts' = [counts EXCEPT ![p].detect = @ + 1]
    /\ \/ /\ pc' = [pc EXCEPT ![p] = "except"]
          /\ UNCHANGED <<detections, result>>
       \/ \E d \in DetectorResults :
            /\ detections' = [detections EXCEPT ![p] = d]
            /\ IF NoDetection(d)
               THEN /\ result' = [result EXCEPT ![p] = Returned(None, None)]
                    /\ pc' = [pc EXCEPT ![p] = "done"]
               ELSE /\ pc' = [pc EXCEPT ![p] = "set_image"]
                    /\ UNCHANGED result
    /\ UNCHANGED <<aside, env, globals, primed, input, shape, predicts, masks, mask_of,
                   persisted, released>>

\* app.py:131 sam_predictor.set_image(source_image): the shared predictor now
\* holds this call's image; a failing set_image leaves the old image or none.
SetImage(p) ==
    /\ pc[p] = "set_image"
    /\ Did(p, "set_image", shape[p])
    /\ counts' = [counts EXCEPT ![p].set_image = @ + 1]
    /\ \/ /\ primed' = p
          /\ pc' = [pc EXCEPT ![p] = "input_boxes"]
       \/ /\ primed' \in {primed, None}
          /\ pc' = [pc EXCEPT ![p] = "except"]
    /\ UNCHANGED <<aside, env, globals, input, shape, detections, predicts, masks, mask_of,
                   persisted, released, result>>

\* app.py:134-145: torch.tensor(detections.xyxy, device=...) may raise.
InputBoxes(p) ==
    /\ pc[p] = "input_boxes"
    /\ \/ pc' = [pc EXCEPT ![p] = IF TORCH_AVAILABLE THEN "predict_box" ELSE "except"]
       \/ pc' = [pc EXCEPT ![p] = "except"]
    /\ UNCHANGED <<aside, steps, env, globals, primed, input, shape, detections, predicts,
                   masks, mask_of, counts, persisted, released, result>>

\* app.py:148-153: the box prompt is the first detected box.
BoxPrompt(d) == [kind |-> "box", at |-> d.xyxy[1]]

\* app.py:147-167: the primary predict.  predict raises when no image is
\* primed; an exception inside the try leads to the point-prompt attempt, a
\* mask set that is None or empty to the return at line 157.
PredictBox(p) ==
    /\ pc[p] = "predict_box"
    /\ Did(p, "predict_box", NoImage)
    /\ predicts' = [predicts EXCEPT ![p] = Append(@, BoxPrompt(detections[p]))]
    /\ \/ /\ masks' = [masks EXCEPT ![p].primary = "raised"]
          /\ pc' = [pc EXCEPT ![p] = "predict_point"]
          /\ UNCHANGED <<mask_of, result>>
       \/ /\ primed # None
          /\ masks' = [masks EXCEPT ![p].primary = "empty"]
          /\ pc' = [pc EXCEPT ![p] = "done"]
          /\ result' = [result EXCEPT ![p] = Returned(None, None)]
          /\ UNCHANGED mask_of
       \/ /\ primed # None
          /\ masks' = [masks EXCEPT ![p].primary = "mask"]
          /\ mask_of' = [mask_of EXCEPT ![p] = primed]
          /\ pc' = [pc EXCEPT ![p] = "composite"]
          /\ UNCHANGED result
    /\ UNCHANGED <<aside, env, globals, primed, input, shape, detections, counts,
                   persisted, released>>

\* app.py:171-178: one foreground point at the center of the first box.
PointPrompt(d) ==
    LET box == d.xyxy[1]
    IN  [kind |-> "point", at |-> <<(box[1] + box[3]) \div 2, (box[2] + box[4]) \div 2>>]

MaskFoundAlways(m) == TRUE

\* app.py:181: whether the fallback's mask set is usable.
MaskFound(m) == m = "mask"

\* A point-prompt predict that is tried again whenever it raises.
PredictPointRetry(p) ==
    /\ pc[p] = "predict_point"
    /\ Did(p, "predict_point", NoImage)
    /\ predicts' = [predicts EXCEPT ![p] = Append(@, PointPrompt(detections[p]))]
    /\ masks' = [masks EXCEPT ![p].fallback = "raised"]
    /\ UNCHANGED <<aside, env, globals, primed, pc, input, shape, detections, mask_of,
                   counts, persisted, released, result>>

\* app.py:169-191: the point-prompt predict; no mask or an exception ends the
\* call with (None, None).
PredictPoint(p) ==
    /\ pc[p] = "predict_point"
    /\ Did(p, "predict_point", NoImage)
    /\ predicts' = [predicts EXCEPT ![p] = Append(@, PointPrompt(detections[p]))]
    /\ \/ /\ masks' = [masks EXCEPT ![p].fallback = "raised"]
          /\ pc' = [pc EXCEPT ![p] = "done"]
          /\ result' = [result EXCEPT ![p] = Returned(None, None)]
          /\ UNCHANGED mask_of
       \/ /\ primed # None
          /\ \E m \in {"mask", "empty"} :
               /\ masks' = [masks EXCEPT ![p].fallback = m]
               /\ IF MaskFound(m)
                  THEN /\ mask_of' = [mask_of EXCEPT ![p] = primed]
                       /\ pc' = [pc EXCEPT ![p] = "composite"]
                       /\ UNCHANGED result
                  ELSE /\ pc' = [pc EXCEPT ![p] = "done"]
                       /\ result' = [result EXCEPT ![p] = Returned(None, None)]
                       /\ UNCHANGED mask_of
    /\ UNCHANGED <<aside, env, globals, primed, input, shape, detections, counts,
                   persisted, released>>

AnnotatedFirst(xyxy) == IF xyxy = << >> THEN 0 ELSE 1

\* app.py:204-210: `for box in detections.xyxy` draws the box's rectangle
\* and the prompt label above it; this is how many boxes the loop goes over.
Annotated(xyxy) == Len(xyxy)

\* app.py:193-210: overlay, blend and box drawing; numpy/OpenCV may raise,
\* and result_image, a local, is then gone with whatever was drawn on it.
Composite(p) ==
    /\ pc[p] = "composite"
    /\ Did(p, "composite", shape[p])
    /\ \/ /\ pc' = [pc EXCEPT ![p] = "persist"]
          /\ counts' = [counts EXCEPT ![p].rectangles = Annotated(detections[p].xyxy),
                                      ![p].labels = Annotated(detections[p].xyxy)]
       \/ /\ pc' = [pc EXCEPT ![p] = "except"]
          /\ UNCHANGED counts
    /\ UNCHANGED <<aside, env, globals, primed, input, shape, detections, predicts,
                   masks, mask_of, persisted, released, result>>

\* The image of the call before any downscaling: what cv2.imdecode gave.
PersistedDecoded(p) ==
    LET i == CHOOSE i \in 1..Len(steps[p]) : steps[p][i].op = "decode" IN steps[p][i].image

\* app.py:221 cv2.imwrite(original_filename, source_image): the original that
\* is written is the call's current, possibly downscaled, source_image.
PersistedOriginal(p) == shape[p]

\* app.py:226: both files must exist.
Verified(files) == "original" \in files /\ "result" \in files

\* app.py:212-227: the two writes (each file lands or does not: imwrite
\* returns False, or makedirs/imwrite raises) and the existence check.
Persist(p) ==
    /\ pc[p] = "persist"
    /\ Len(issued) < MaxIds
    /\ Did(p, "persist", PersistedOriginal(p))
    /\ counts' = [counts EXCEPT ![p].persist = @ + 1]
    /\ unique_id' = [unique_id EXCEPT ![p] = uuid4(issued)]
    /\ issued' = Append(issued, uuid4(issued))
    /\ \E files \in SUBSET {"original", "result"} :
        /\ written' = [written EXCEPT ![p] = files]
        /\ pc' = [pc EXCEPT ![p] = IF Verified(files) THEN "finish" ELSE "except"]
    /\ UNCHANGED <<aside, env, globals, primed, input, shape, detections, predicts,
                   masks, mask_of, released, result>>

\* `if torch and torch.cuda.is_available(): torch.cuda.empty_cache()`
\* (app.py:234-235, 243-244): empty_cache is called, and so can raise, only
\* with an accelerator present.
ReleaseCanRaise == cuda_available

\* app.py:229-238: release inside the try, then the path pair.
Finish(p) ==
    /\ pc[p] = "finish"
    /\ \/ /\ released' = [released EXCEPT ![p] = @ + 1]
          /\ result' = [result EXCEPT ![p] = Returned(original_filename(unique_id[p]),
                                                      result_filename(unique_id[p]))]
          /\ pc' = [pc EXCEPT ![p] = "done"]
       \/ /\ ReleaseCanRaise
          /\ pc' = [pc EXCEPT ![p] = "except"]
          /\ UNCHANGED <<released, result>>
    /\ UNCHANGED <<aside, steps, env, globals, primed, input, shape, detections, predicts,
                   masks, mask_of, counts, persisted>>

\* app.py:240-246: the outermost handler; its own release is not guarded.
ExceptHandler(p) ==
    /\ pc[p] = "except"
    /\ \/ /\ released' = [released EXCEPT ![p] = @ + 1]
          /\ result' = [result EXCEPT ![p] = Returned(None, None)]
       \/ /\ ReleaseCanRaise
          /\ result' = [result EXCEPT ![p] = "raised"]
          /\ UNCHANGED released
    /\ pc' = [pc EXCEPT ![p] = "done"]
    /\ UNCHANGED <<aside, steps, env, globals, primed, input, shape, detections, predicts,
                   masks, mask_of, counts, persisted>>

\* The caller has the outcome; the call's locals are gone.
Return(p) ==
    /\ pc[p] = "done"
    /\ pc' = [pc EXCEPT ![p] = "idle"]
    /\ image_bytes' = [image_bytes EXCEPT ![p] = 0]
    /\ prompt' = [prompt EXCEPT ![p] = << >>]
    /\ shape' = [shape EXCEPT ![p] = NoImage]
    /\ detections' = [detections EXCEPT ![p] = UnsetDetections]
    /\ predicts' = [predicts EXCEPT ![p] = << >>]
    /\ masks' = [masks EXCEPT ![p] = NoMasks]
    /\ mask_of' = [mask_of EXCEPT ![p] = None]
    /\ counts' = [counts EXCEPT ![p] = NoCounts]
    /\ written' = [written EXCEPT ![p] = {}]
    /\ unique_id' = [unique_id EXCEPT ![p] = 0]
    /\ UNCHANGED issued
    /\ released' = [released EXCEPT ![p] = 0]
    /\ result' = [result EXCEPT ![p] = "pending"]
    /\ steps' = [steps EXCEPT ![p] = << >>]
    /\ UNCHANGED <<aside, env, globals, primed>>

Next ==
    \E p \in Calls :
        \/ Call(p)
        \/ Validate(p)
        \/ EnsureModels(p)
        \/ Decode(p)
        \/ Resize(p)
        \/ Detect(p)
        \/ SetImage(p)
        \/ InputBoxes(p)
        \/ PredictBox(p)
        \/ PredictPoint(p)
        \/ Composite(p)
        \/ Persist(p)
        \/ Finish(p)
        \/ ExceptHandler(p)
        \/ Return(p)

Spec == Init /\ [][Next]_vars

----
\* The downscaling step of run_segmentation (app.py:98-113) on its own, for
\* decoded images of many shapes.
ResizeDims == {1, 50, 1000, 1500, 2048, 2049, 2215, 3000, 5000}

InitResize ==
    /\ AppInit
    /\ ImportsIdle
    /\ AssetsIdle
    /\ RouteIdle
    /\ LoadersIdle
    /\ \E h, w \in ResizeDims : resize = [from |-> <<h, w>>, to |-> NoImage, is |-> "decoded"]

\* cv2.resize raises on a target size with a zero dimension; otherwise the
\* resized (or untouched) image is what the call goes on with and persists.
ApplyResize ==
    /\ resize.is = "decoded"
    /\ LET s == Resized(resize.from)
       IN  resize' = IF s[1] = 0 \/ s[2] = 0
                     THEN [resize EXCEPT !.is = "raised"]
                     ELSE [resize EXCEPT !.to = s, !.is = "resized"]
    /\ UNCHANGED <<env, globals, primed, pc, input, shape, detections, predicts,
                   masks, mask_of, counts, persisted, released, result, steps, imports,
                   assets, route, loaders>>

NextResize == ApplyResize

SpecResize == InitResize /\ [][NextResize]_vars

----
\* The import functions of model_loader.py on their own, on hosts that differ
\* in what is installed, what the vendored directories hold and which of
\* them are on sys.path already.

\* What pip may have installed: at most one of the detector's package names
\* and at most one of the segmenter's two packages.
DetectorSites == {{}} \cup {{InferenceModule[package_variations[i]]} : i \in 1..Len(package_variations)}
SegmenterSites == {{}, {"mobile_sam"}, {"segment_anything"}}

\* What importing from a vendored directory can give once it is on sys.path.
Vendored(d) ==
    IF d = MOBILE_SAM_DIR
    THEN SUBSET {"mobile_sam", "segment_anything"}
    ELSE SUBSET {"groundingdino.util.inference", "util.inference"}

\* A sub-directory exists only inside an existing directory; a directory
\* that does not exist gives nothing; GROUNDING_DINO_DIR gives the package
\* groundingdino only if it holds the directory of that name.
Hosts ==
    {h \in [site : {a \cup b : a \in DetectorSites, b \in SegmenterSites},
            dirs : SUBSET Dirs,
            provides : [Dirs -> SUBSET {"groundingdino.util.inference", "util.inference",
                                        "mobile_sam", "segment_anything"}]] :
        /\ (h.dirs \cap {possible_paths[2], possible_paths[3]} # {}) => GROUNDING_DINO_DIR \in h.dirs
        /\ ("groundingdino.util.inference" \in h.provides[GROUNDING_DINO_DIR])
               => possible_paths[2] \in h.dirs
        /\ \A d \in Dirs : h.provides[d] \in Vendored(d) /\ (d \notin h.dirs => h.provides[d] = {})}

InitImports ==
    /\ TORCH_AVAILABLE = TRUE
    /\ cuda_available = FALSE
    /\ AppIdle
    /\ ResizeIdle
    /\ AssetsIdle
    /\ RouteIdle
    /\ LoadersIdle
    /\ host \in Hosts
    /\ sys_path \in SUBSET host.dirs
    /\ GroundingDINO = None
    /\ sam_model_registry = None
    /\ SamPredictor = None
    /\ import_calls = [prev |-> NoCall, last |-> NoCall]

\* Whether `import m` finds m with the directories sp on sys.path.
Importable(m, sp) == m \in host.site \/ \E d \in sp : m \in host.provides[d]

\* model_loader.py:36-51: the imported symbol(s), or None.
safe_import(m, sp) == IF Importable(m, sp) THEN m ELSE None

\* model_loader.py:53-58
add_to_path_if_exists(d, sp) ==
    IF d \in host.dirs /\ d \notin sp
    THEN [added |-> TRUE, sys_path |-> sp \cup {d}]
    ELSE [added |-> FALSE, sys_path |-> sp]

\* One import attempt of a strategy: the module asked for, the directories on
\* sys.path at that moment and what safe_import gave.
Attempt(method, m, sp) ==
    [method |-> method, module |-> m, sys_path |-> sp, got |-> safe_import(m, sp)]

StopsNever(got) == FALSE

\* `if GroundingDINO: ... return True` (model_loader.py:68-70, 79-81, 99-102,
\* 122-127) and `if result and len(result) == 2: ... return True` (150-153,
\* 160-163, 173-176): a strategy that got its symbol ends the function.
Stops(got) == got # None

\* The candidates are tried in their order until one stops the function; a
\* candidate that fails in any way is None from safe_import and the next is
\* tried.
RECURSIVE TryEach(_, _, _)
TryEach(candidates, sp, tried) ==
    IF candidates = << >> THEN [got |-> None, tried |-> tried]
    ELSE LET a == Attempt(Head(candidates)[1], Head(candidates)[2], sp)
         IN  IF Stops(a.got)
             THEN [got |-> a.got, tried |-> Append(tried, a)]
             ELSE TryEach(Tail(candidates), sp, Append(tried, a))

\* model_loader.py:65-104: method 1, method 2 (the package groundingdino,
\* then its inference module) and method 3 (each package variation, then its
\* inference module); a package's inference module imports only if the
\* package does.
InstalledCandidates ==
    <<<<1, "groundingdino.util.inference">>, <<2, "groundingdino.util.inference">>>>
    \o [i \in 1..Len(package_variations) |-> <<3, InferenceModule[package_variations[i]]>>]

\* model_loader.py:120-127: the two imports tried from a vendored path.
LocalCandidates == <<<<4, "groundingdino.util.inference">>, <<4, "util.inference">>>>

\* model_loader.py:116-130: the loop over possible_paths; a path is tried
\* only if add_to_path_if_exists has just added it.
RECURSIVE FromLocal(_, _, _)
FromLocal(i, sp, tried) ==
    IF i > Len(possible_paths)
    THEN [got |-> None, sys_path |-> sp, tried |-> tried]
    ELSE LET a == add_to_path_if_exists(possible_paths[i], sp)
         IN  IF ~a.added THEN FromLocal(i + 1, sp, tried)
             ELSE LET t == TryEach(LocalCandidates, a.sys_path, tried)
                  IN  IF t.got # None
                      THEN [got |-> t.got, sys_path |-> a.sys_path, tried |-> t.tried]
                      ELSE FromLocal(i + 1, a.sys_path, t.tried)

ImportedTrue(got, sp, tried) ==
    [ret |-> TRUE, symbol |-> got, sys_path |-> sp, tried |-> tried, help |-> got = None]

\* The end of an import function: True with the symbol, or the installation
\* help (lines 136-137, 178-179) and False.
Imported(got, sp, tried) ==
    [ret |-> got # None, symbol |-> got, sys_path |-> sp, tried |-> tried, help |-> got = None]

\* model_loader.py:60-139: what import_grounding_dino returns, assigns to
\* GroundingDINO (every import's result is assigned, None included) and
\* leaves on sys.path.
GroundingDinoImport(sp) ==
    LET installed == TryEach(InstalledCandidates, sp, << >>)
    IN  IF installed.got # None THEN Imported(installed.got, sp, installed.tried)
        ELSE IF GROUNDING_DINO_DIR \in host.dirs
        THEN LET local == FromLocal(1, add_to_path_if_exists(GROUNDING_DINO_DIR, sp).sys_path,
                                    installed.tried)
             IN  Imported(local.got, local.sys_path, local.tried)
        ELSE Imported(None, sp, installed.tried)

\* model_loader.py:141-181: methods 1 and 2, then method 3 with
\* MOBILE_SAM_DIR on sys.path if that directory exists; sam_model_registry and
\* SamPredictor are assigned together, and only by a strategy that succeeds.
MobileSamImport(sp) ==
    LET installed == TryEach(<<<<1, "mobile_sam">>, <<2, "segment_anything">>>>, sp, << >>)
    IN  IF installed.got # None THEN Imported(installed.got, sp, installed.tried)
        ELSE IF MOBILE_SAM_DIR \in host.dirs
        THEN LET a     == add_to_path_if_exists(MOBILE_SAM_DIR, sp)
                 local == TryEach(<<<<3, "mobile_sam">>>>, a.sys_path, installed.tried)
             IN  Imported(local.got, a.sys_path, local.tried)
        ELSE Imported(None, sp, installed.tried)

\* The call that has just returned, with which capability globals are set.
Called(op, r) ==
    import_calls' =
        [prev |-> import_calls.last,
         last |-> [op |-> op, ret |-> r.ret, tried |-> r.tried, help |-> r.help,
                   set |-> <<GroundingDINO' # None, sam_model_registry' # None,
                             SamPredictor' # None>>]]

import_grounding_dino ==
    /\ LET r == GroundingDinoImport(sys_path)
       IN  /\ GroundingDINO' = r.symbol
           /\ sys_path' = r.sys_path
           /\ UNCHANGED <<sam_model_registry, SamPredictor>>
           /\ Called("import_grounding_dino", r)
    /\ UNCHANGED <<env, globals, primed, pc, input, shape, detections, predicts,
                   masks, mask_of, counts, persisted, released, result, steps, resize, host,
                   assets, route, loaders>>

import_mobile_sam ==
    /\ LET r == MobileSamImport(sys_path)
       IN  /\ IF r.ret
              THEN sam_model_registry' = r.symbol /\ SamPredictor' = r.symbol
              ELSE UNCHANGED <<sam_model_registry, SamPredictor>>
           /\ sys_path' = r.sys_path
           /\ UNCHANGED GroundingDINO
           /\ Called("import_mobile_sam", r)
    /\ UNCHANGED <<env, globals, primed, pc, input, shape, detections, predicts,
                   masks, mask_of, counts, persisted, released, result, steps, resize, host,
                   assets, route, loaders>>

NextImports == import_grounding_dino \/ import_mobile_sam

SpecImports == InitImports /\ [][NextImports]_vars

----
\* The asset-setup functions of model_loader.py on their own: which
\* checkpoints are on disk, whether the config file can be found and how each
\* directory creation and each fetch ends are the environment's choice.

\* model_loader.py:215: the default of download_file_robust's parameter.
max_retries == 3

\* The retry counts a direct caller of download_file_robust passes.
RetryChoices == {0, 1, max_retries}

InitAssets ==
    /\ TORCH_AVAILABLE = TRUE
    /\ cuda_available = FALSE
    /\ AppIdle
    /\ ResizeIdle
    /\ ImportsIdle
    /\ RouteIdle
    /\ LoadersIdle
    /\ on_disk \in [Checkpoints -> {"absent", "complete"}]
    /\ config \in BOOLEAN
    /\ setup = NoSetup

\* A caller enters one of the three functions; the setup functions fix the
\* destination and leave max_retries at its default (lines 280, 299).
SetupCall ==
    /\ setup.pc = "idle"
    /\ \E op \in {"download_file_robust", "setup_grounding_dino_files", "setup_mobile_sam_files"},
          dest \in Checkpoints, n \in RetryChoices :
        /\ op = "setup_grounding_dino_files" => dest = "groundingdino_swint_ogc.pth" /\ n = max_retries
        /\ op = "setup_mobile_sam_files" => dest = "mobile_sam.pt" /\ n = max_retries
        /\ setup' = [NoSetup EXCEPT !.op = op, !.pc = "exists", !.dest = dest,
                                     !.max_retries = n, !.before = on_disk[dest]]
    /\ UNCHANGED <<on_disk, config>>
    /\ UNCHANGED <<env, globals, primed, pc, input, shape, detections, predicts,
                   masks, mask_of, counts, persisted, released, result, steps, resize, imports,
                   route, loaders>>

\* download_file_robust returns got: to its caller, or to the config search
\* of setup_grounding_dino_files (line 283).
DownloadReturns(s, got) ==
    IF s.op = "setup_grounding_dino_files"
    THEN [s EXCEPT !.got = got, !.pc = "config"]
    ELSE [s EXCEPT !.got = got, !.ret = got, !.pc = "done"]

ExistsNever(f) == FALSE

\* Path.exists(): a partial file exists as much as a complete one.
Exists(f) == f # "absent"

\* model_loader.py:217-219
CheckExists ==
    /\ setup.pc = "exists"
    /\ setup' = IF Exists(on_disk[setup.dest])
                THEN DownloadReturns(setup, "True")
                ELSE [setup EXCEPT !.pc = "mkdir"]
    /\ UNCHANGED <<on_disk, config>>
    /\ UNCHANGED <<env, globals, primed, pc, input, shape, detections, predicts,
                   masks, mask_of, counts, persisted, released, result, steps, resize, imports,
                   route, loaders>>

\* model_loader.py:222: destination.parent.mkdir(...) stands before the try,
\* so its failure leaves download_file_robust, and the setup function that
\* called it, as an exception.
Mkdir ==
    /\ setup.pc = "mkdir"
    /\ \/ setup' = [setup EXCEPT !.pc = "fetch"]
       \/ setup' = [setup EXCEPT !.pc = "done", !.ret = "raised"]
    /\ UNCHANGED <<on_disk, config>>
    /\ UNCHANGED <<env, globals, primed, pc, input, shape, detections, predicts,
                   masks, mask_of, counts, persisted, released, result, steps, resize, imports,
                   route, loaders>>

RangeNeverExhausted(attempt, n) == FALSE

\* model_loader.py:224: `for attempt in range(max_retries)` has no pass left.
RangeExhausted(attempt, n) == attempt >= n

\* model_loader.py:238: `attempt < max_retries - 1` is false.
LastAttempt(attempt, n) == attempt >= n - 1

\* model_loader.py:224-246: one pass of the loop.  urlretrieve leaves a
\* complete file, or fails leaving a partial file or none; the handler
\* unlinks what exists before the next attempt and returns False after the
\* last one; an exhausted range falls through to line 246.
Fetch ==
    /\ setup.pc = "fetch"
    /\ IF RangeExhausted(setup.attempt, setup.max_retries)
       THEN setup' = DownloadReturns(setup, "False") /\ UNCHANGED on_disk
       ELSE \E outcome \in {"complete", "partial", "absent"} :
              LET s == [setup EXCEPT !.fetched = Append(@, [found |-> on_disk[setup.dest],
                                                           outcome |-> outcome])]
              IN  IF outcome = "complete"
                  THEN /\ on_disk' = [on_disk EXCEPT ![setup.dest] = "complete"]
                       /\ setup' = DownloadReturns(s, "True")
                  ELSE IF LastAttempt(setup.attempt, setup.max_retries)
                  THEN /\ on_disk' = [on_disk EXCEPT ![setup.dest] = outcome]
                       /\ setup' = DownloadReturns(s, "False")
                  ELSE /\ on_disk' = [on_disk EXCEPT ![setup.dest] = "absent"]
                       /\ setup' = [s EXCEPT !.attempt = @ + 1]
    /\ UNCHANGED config
    /\ UNCHANGED <<env, globals, primed, pc, input, shape, detections, predicts,
                   masks, mask_of, counts, persisted, released, result, steps, resize, imports,
                   route, loaders>>

\* model_loader.py:283-290: without a config file the result is (False, None)
\* whatever the download returned.
FindConfig ==
    /\ setup.pc = "config"
    /\ setup' = [setup EXCEPT !.pc = "done",
                              !.ret = IF ~config THEN "(False, None)"
                                      ELSE IF setup.got = "True" THEN "(True, config_path)"
                                      ELSE "(False, config_path)"]
    /\ UNCHANGED <<on_disk, config>>
    /\ UNCHANGED <<env, globals, primed, pc, input, shape, detections, predicts,
                   masks, mask_of, counts, persisted, released, result, steps, resize, imports,
                   route, loaders>>

\* The caller has the outcome.
SetupReturn ==
    /\ setup.pc = "done"
    /\ setup' = NoSetup
    /\ UNCHANGED <<on_disk, config>>
    /\ UNCHANGED <<env, globals, primed, pc, input, shape, detections, predicts,
                   masks, mask_of, counts, persisted, released, result, steps, resize, imports,
                   route, loaders>>

NextAssets == SetupCall \/ CheckExists \/ Mkdir \/ Fetch \/ FindConfig \/ SetupReturn

SpecAssets == InitAssets /\ [][NextAssets]_vars

\* Every started step of a call is eventually taken: the functions run to
\* their end once called.
SpecAssetsFair == SpecAssets /\ WF_vars(NextAssets)

----
\* The /segment route (app.py:843-894): each caller is a request thread that
\* runs the handler, and run_segmentation inside it.

\* A file name is its parts between dots; str.lower() on the extensions used.
Filenames == {<< >>, <<"dish">>, <<"dish", "PNG">>, <<"dish", "txt">>}

Lower == [png |-> "png", PNG |-> "png", txt |-> "txt", dish |-> "dish"]

allowed_extensions == {"png", "jpg", "jpeg", "gif", "bmp"}

\* What the request carries: the image_file part or none, its file name and
\* content, and the prompt field; a part that is missing or unnamed has no
\* content.
Forms ==
    {f \in [has_file : BOOLEAN, filename : Filenames, prompt : Prompts, bytes : ByteLens] :
        (~f.has_file \/ f.filename = << >>) => (f.filename = << >> /\ f.bytes = 0)}

\* app.py:851-881: the error the handler answers before it calls
\* run_segmentation, or "" when it goes on to call it.
Rejection(form, gd, sp) ==
    IF gd = None THEN "GroundingDINO model is not loaded. Check the server logs."
    ELSE IF sp = None THEN "MobileSAM model is not loaded. Check the server logs."
    ELSE IF ~form.has_file THEN "No image file provided."
    ELSE IF form.filename = << >> THEN "Please select a valid image file."
    ELSE IF Strip(form.prompt) = << >> THEN "Please provide a prompt describing the food item."
    ELSE IF Len(form.filename) < 2
            \/ Lower[form.filename[Len(form.filename)]] \notin allowed_extensions
         THEN "Upload a valid image file (PNG, JPG, JPEG, GIF, BMP)."
    ELSE IF form.bytes = 0 THEN "The uploaded file is empty."
    ELSE ""

Failure(message) == [success |-> FALSE, error |-> message, paths |-> FALSE]

AnswerFound(returned) == [success |-> TRUE, error |-> "", paths |-> TRUE]

\* app.py:883-894: the answer for what run_segmentation returned, or for the
\* exception it let through, which the outer except catches.
Answer(returned) ==
    IF returned = "raised" THEN Failure("An error occurred during processing")
    ELSE IF returned = "NoneNone"
    THEN Failure("Could not detect the specified object. Try a different prompt or image.")
    ELSE [success |-> TRUE, error |-> "", paths |-> TRUE]

\* app.py:845-883: load_models, the checks on the handles and on the form,
\* and the call of run_segmentation with the stripped prompt.
RouteReceive(p) ==
    /\ pc[p] = "idle"
    /\ route[p].pc # "running"
    /\ Admits
    /\ \E ret \in BOOLEAN, form \in Forms :
        /\ LoadModels(ret)
        /\ LET rejection == Rejection(form, grounding_dino', sam_predictor')
           IN  IF rejection # ""
               THEN /\ route' = [route EXCEPT ![p] = [pc |-> "answered", returned |-> "pending",
                                                      response |-> Failure(rejection)]]
                    /\ UNCHANGED <<pc, input>>
               ELSE /\ route' = [route EXCEPT ![p] = [pc |-> "running", returned |-> "pending",
                                                      response |-> NoAnswer]]
                    /\ pc' = [pc EXCEPT ![p] = "validate"]
                    /\ image_bytes' = [image_bytes EXCEPT ![p] = form.bytes]
                    /\ prompt' = [prompt EXCEPT ![p] = Strip(form.prompt)]
    /\ UNCHANGED <<env, primed, shape, detections, predicts, masks, mask_of, counts,
                   persisted, released, result, steps, resize, imports, assets, loaders>>

\* app.py:883-894: run_segmentation is over and the handler answers.
RouteRespond(p) ==
    /\ route[p].pc = "running"
    /\ pc[p] = "done"
    /\ route' = [route EXCEPT ![p] = [pc |-> "answered", returned |-> result[p],
                                      response |-> Answer(result[p])]]
    /\ UNCHANGED <<env, globals, primed, pc, input, shape, detections, predicts, masks,
                   mask_of, counts, persisted, released, result, steps, resize, imports, assets, loaders>>

\* The handler has returned its answer; the locals of the call are gone.
RouteDone(p) == route[p].pc = "answered" /\ Return(p)

\* The requests are served one at a time here: the answer to a request
\* depends on nothing but what its own run_segmentation call returns.
Requests == {"A"}

NextRoute ==
    \E p \in Requests :
        \/ RouteReceive(p)
        \/ Validate(p)
        \/ EnsureModels(p)
        \/ Decode(p)
        \/ Resize(p)
        \/ Detect(p)
        \/ SetImage(p)
        \/ InputBoxes(p)
        \/ PredictBox(p)
        \/ PredictPoint(p)
        \/ Composite(p)
        \/ Persist(p)
        \/ Finish(p)
        \/ ExceptHandler(p)
        \/ RouteRespond(p)
        \/ RouteDone(p)

SpecRoute == Init /\ [][NextRoute]_vars

----
\* The model-construction functions (model_loader.py:301-361), called on
\* their own with the capability globals as the import functions can leave
\* them and the files as the setup functions can leave them.

\* The dicts a SAM package can export as sam_model_registry, by their keys.
RegistryChoices == {<< >>, <<"vit_t">>, <<"default", "vit_h">>, <<"default", "vit_h", "vit_t">>}

\* The sam_type a caller can ask for; the default of line 326 is "vit_t".
SamTypes == {"vit_t", "vit_h", "vit_x"}

\* The statement of the try block that raises, if any: the model's
\* constructor, sam.to(DEVICE), SamPredictor(sam), or the device printout of
\* line 355.
DetectorFails == {"none", "build"}
SegmenterFails == {"none", "build", "to", "predictor", "device"}

\* A checkpoint that was fetched only in part cannot be deserialised.
CanFail(checkpoint, all) == IF on_disk[checkpoint] = "partial" THEN {"build"} ELSE all

InitLoaders ==
    /\ TORCH_AVAILABLE = TRUE
    /\ cuda_available \in BOOLEAN
    /\ AppIdle
    /\ ResizeIdle
    /\ RouteIdle
    /\ host = [site |-> {}, dirs |-> {}, provides |-> [d \in Dirs |-> {}]]
    /\ sys_path = {}
    /\ import_calls = [prev |-> NoCall, last |-> NoCall]
    /\ GroundingDINO \in {None, "groundingdino.util.inference"}
    /\ sam_model_registry \in {None, "mobile_sam", "segment_anything"}
    /\ SamPredictor = sam_model_registry
    /\ registry \in IF sam_model_registry = None THEN {<< >>} ELSE RegistryChoices
    /\ on_disk \in [Checkpoints -> {"absent", "partial", "complete"}]
    /\ config \in BOOLEAN
    /\ setup = NoSetup
    /\ load_call = NoLoad
    /\ boot = NoBoot
    /\ health = NoHealth

Uncaught(instance, raised) == IF raised THEN "raised" ELSE instance

\* try: ... return instance / except Exception: ... return None
\* (model_loader.py:307-324, 332-361).
Guarded(instance, raised) == IF raised THEN None ELSE instance

\* model_loader.py:301-324
LoadGroundingDino(checkpoint, fails) ==
    IF GroundingDINO = None THEN None
    ELSE Guarded("model", ~config \/ ~Exists(on_disk[checkpoint]) \/ fails # "none")

VariantRequested(sam_type, keys) == sam_type

\* model_loader.py:340-348: the requested variant if it is a key, else the
\* first key; None stands for the ValueError of line 348.
Variant(sam_type, keys) ==
    IF \E i \in 1..Len(keys) : keys[i] = sam_type THEN sam_type
    ELSE IF keys # << >> THEN keys[1]
    ELSE None

\* model_loader.py:326-361: the variant whose constructor was called, if one
\* was, and what the function returned.
LoadMobileSam(checkpoint, sam_type, fails) ==
    IF sam_model_registry = None \/ registry = << >> \/ SamPredictor = None
    THEN [variant |-> None, ret |-> None]
    ELSE IF ~Exists(on_disk[checkpoint])
    THEN [variant |-> None, ret |-> Guarded("predictor", TRUE)]
    ELSE LET v == Variant(sam_type, registry)
         IN  [variant |-> v, ret |-> Guarded("predictor", v = None \/ fails # "none")]

load_grounding_dino_model ==
    /\ \E fails \in CanFail("groundingdino_swint_ogc.pth", DetectorFails) :
          load_call' = [op |-> "load_grounding_dino_model", sam_type |-> "", fails |-> fails,
                        variant |-> None,
                        ret |-> LoadGroundingDino("groundingdino_swint_ogc.pth", fails)]
    /\ UNCHANGED <<env, globals, primed, pc, input, shape, detections, predicts,
                   masks, mask_of, counts, persisted, released, result, steps, resize, imports,
                   assets, route, registry, boot, health>>

load_mobile_sam_model ==
    /\ \E sam_type \in SamTypes, fails \in CanFail("mobile_sam.pt", SegmenterFails) :
          LET r == LoadMobileSam("mobile_sam.pt", sam_type, fails)
          IN  load_call' = [op |-> "load_mobile_sam_model", sam_type |-> sam_type,
                            fails |-> fails, variant |-> r.variant, ret |-> r.ret]
    /\ UNCHANGED <<env, globals, primed, pc, input, shape, detections, predicts,
                   masks, mask_of, counts, persisted, released, result, steps, resize, imports,
                   assets, route, registry, boot, health>>

NextLoaders == load_grounding_dino_model \/ load_mobile_sam_model

SpecLoaders == InitLoaders /\ [][NextLoaders]_vars

----
\* load_models (app.py:23-52) with the import of line 33 followed into
\* model_loader's module-level code: the first import runs the module from
\* its first line, a later one reads the module cached in sys.modules, and a
\* module whose code raised is not cached.

\* How many load_models calls a process makes.
MaxLoads == 3

\* What torch.cuda.is_available() can do at model_loader.py:15.
ProbeOutcomes == {IF cuda_available THEN "True" ELSE "False", "raises"}

\* model_loader.py:15
SelectDevice(probe) == IF probe = "True" THEN "cuda" ELSE "cpu"

\* app.py:23-33: the early return of line 26-27, else the import.
EnterLoadModels ==
    IF ModelsReady
    THEN [boot EXCEPT !.call = "returned", !.ret = TRUE, !.loads = @ + 1]
    ELSE IF model_loader.imported
    THEN [boot EXCEPT !.call = "assign", !.loads = @ + 1]
    ELSE [NoBoot EXCEPT !.call = "importing", !.loads = boot.loads + 1,
                        !.pc = "device", !.probe = boot.probe,
                        !.probes = boot.probes, !.reads = boot.reads,
                        !.ret = boot.ret]

\* load_models called by a thread other than the one serving /health; the
\* module's import lock lets one call at a time run the import.
load_models ==
    /\ boot.call \in {"idle", "returned"}
    /\ boot.loads < MaxLoads
    /\ health.pc # "loading"
    /\ boot' = EnterLoadModels
    /\ UNCHANGED <<env, globals, primed, pc, input, shape, detections, predicts,
                   masks, mask_of, counts, persisted, released, result, steps, resize, imports,
                   assets, route, registry, load_call, health>>

\* model_loader.py:1-16: `import torch` and the assignment of DEVICE, neither
\* inside a try.
BootDevice ==
    /\ boot.pc = "device"
    /\ IF ~TORCH_AVAILABLE
       THEN boot' = [boot EXCEPT !.pc = "raised"]
       ELSE \E probe \in ProbeOutcomes :
               boot' = IF probe = "raises"
                       THEN [boot EXCEPT !.pc = "raised", !.probe = probe, !.probes = @ + 1]
                       ELSE [boot EXCEPT !.pc = "imports", !.probe = probe, !.probes = @ + 1,
                                         !.DEVICE = SelectDevice(probe)]
    /\ UNCHANGED <<env, globals, primed, pc, input, shape, detections, predicts,
                   masks, mask_of, counts, persisted, released, result, steps, resize, imports,
                   assets, route, registry, load_call, health>>

\* The dicts an imported SAM package exports in the bootstrap.
BootRegistries == {<<"vit_t">>, <<"default", "vit_h">>}

\* model_loader.py:18-34, 363-369: the directories (created inside a try),
\* the globals set to None and the two import functions, each of which
\* returns True with its globals set or False with them None.
BootImports ==
    /\ boot.pc = "imports"
    /\ \E gd \in {None, "groundingdino.util.inference"},
          sam \in {None, "mobile_sam", "segment_anything"} :
          /\ GroundingDINO' = gd
          /\ sam_model_registry' = sam
          /\ SamPredictor' = sam
          /\ registry' \in IF sam = None THEN {<< >>} ELSE BootRegistries
          /\ boot' = [boot EXCEPT !.pc = "setup_detector",
                                  !.grounding_dino_available = gd # None,
                                  !.mobile_sam_available = sam # None,
                                  !.ran = Append(@, "imports")]
    /\ UNCHANGED <<host, sys_path, import_calls>>
    /\ UNCHANGED <<env, globals, primed, pc, input, shape, detections, predicts,
                   masks, mask_of, counts, persisted, released, result, steps, resize,
                   assets, route, load_call, health>>

\* model_loader.py:215-246 as its callers see it: the file is there already,
\* or the mkdir of line 222 raises, or the fetches end with a complete file
\* (True) or with a partial or no file (False).
DownloadOutcomes(f) ==
    IF Exists(on_disk[f]) THEN {"exists"} ELSE {"raised", "complete", "partial", "absent"}

DownloadLeaves(f, outcome) == IF outcome \in {"exists", "raised"} THEN on_disk[f] ELSE outcome

DownloadTrue(f, outcome) == outcome \in {"exists", "complete"}

\* model_loader.py:376-377, 272-290: setup_grounding_dino_files, called only
\* if the import succeeded; an exception of download_file_robust leaves the
\* module.
BootSetupDetector ==
    /\ boot.pc = "setup_detector"
    /\ IF ~boot.grounding_dino_available
       THEN boot' = [boot EXCEPT !.pc = "setup_segmenter"] /\ UNCHANGED on_disk
       ELSE \E outcome \in DownloadOutcomes("groundingdino_swint_ogc.pth") :
              /\ on_disk' = [on_disk EXCEPT !["groundingdino_swint_ogc.pth"] =
                                DownloadLeaves("groundingdino_swint_ogc.pth", outcome)]
              /\ boot' = IF outcome = "raised"
                         THEN [boot EXCEPT !.pc = "raised",
                                           !.ran = Append(@, "setup_grounding_dino_files")]
                         ELSE [boot EXCEPT
                                 !.pc = "setup_segmenter",
                                 !.grounding_dino_files_ready =
                                     config /\ DownloadTrue("groundingdino_swint_ogc.pth", outcome),
                                 !.grounding_dino_config_path = config,
                                 !.ran = Append(@, "setup_grounding_dino_files")]
    /\ UNCHANGED <<config, setup>>
    /\ UNCHANGED <<env, globals, primed, pc, input, shape, detections, predicts,
                   masks, mask_of, counts, persisted, released, result, steps, resize, imports,
                   route, registry, load_call, health>>

\* model_loader.py:379-381, 292-299: setup_mobile_sam_files, called only if
\* the import succeeded.
BootSetupSegmenter ==
    /\ boot.pc = "setup_segmenter"
    /\ IF ~boot.mobile_sam_available
       THEN boot' = [boot EXCEPT !.pc = "load_detector"] /\ UNCHANGED on_disk
       ELSE \E outcome \in DownloadOutcomes("mobile_sam.pt") :
              /\ on_disk' = [on_disk EXCEPT !["mobile_sam.pt"] =
                                DownloadLeaves("mobile_sam.pt", outcome)]
              /\ boot' = IF outcome = "raised"
                         THEN [boot EXCEPT !.pc = "raised",
                                           !.ran = Append(@, "setup_mobile_sam_files")]
                         ELSE [boot EXCEPT
                                 !.pc = "load_detector",
                                 !.mobile_sam_files_ready = DownloadTrue("mobile_sam.pt", outcome),
                                 !.ran = Append(@, "setup_mobile_sam_files")]
    /\ UNCHANGED <<config, setup>>
    /\ UNCHANGED <<env, globals, primed, pc, input, shape, detections, predicts,
                   masks, mask_of, counts, persisted, released, result, steps, resize, imports,
                   route, registry, load_call, health>>

\* model_loader.py:388
DetectorGate ==
    /\ boot.grounding_dino_available
    /\ boot.grounding_dino_files_ready
    /\ boot.grounding_dino_config_path

\* model_loader.py:392
SegmenterGate == boot.mobile_sam_available /\ boot.mobile_sam_files_ready

\* model_loader.py:384-390: load_grounding_dino_model, which never raises.
BootLoadDetector ==
    /\ boot.pc = "load_detector"
    /\ IF ~DetectorGate
       THEN boot' = [boot EXCEPT !.pc = "load_segmenter"]
       ELSE \E fails \in CanFail("groundingdino_swint_ogc.pth", DetectorFails) :
              boot' = [boot EXCEPT
                         !.pc = "load_segmenter",
                         !.grounding_dino_model =
                             LoadGroundingDino("groundingdino_swint_ogc.pth", fails),
                         !.ran = Append(@, "load_grounding_dino_model")]
    /\ UNCHANGED <<env, globals, primed, pc, input, shape, detections, predicts,
                   masks, mask_of, counts, persisted, released, result, steps, resize, imports,
                   assets, route, registry, load_call, health>>

\* model_loader.py:392-394: load_mobile_sam_model with the default sam_type.
BootLoadSegmenter ==
    /\ boot.pc = "load_segmenter"
    /\ IF ~SegmenterGate
       THEN boot' = [boot EXCEPT !.pc = "export"]
       ELSE \E fails \in CanFail("mobile_sam.pt", SegmenterFails) :
              boot' = [boot EXCEPT
                         !.pc = "export",
                         !.sam_predictor = LoadMobileSam("mobile_sam.pt", "vit_t", fails).ret,
                         !.ran = Append(@, "load_mobile_sam_model")]
    /\ UNCHANGED <<env, globals, primed, pc, input, shape, detections, predicts,
                   masks, mask_of, counts, persisted, released, result, steps, resize, imports,
                   assets, route, registry, load_call, health>>

\* model_loader.py:415-419: the exports; the module is now cached.
BootExport ==
    /\ boot.pc = "export"
    /\ model_loader' = [imported |-> TRUE, grounding_dino |-> boot.grounding_dino_model,
                        sam_predictor |-> boot.sam_predictor, device |-> boot.DEVICE]
    /\ boot' = [boot EXCEPT !.pc = "done", !.call = "assign"]
    /\ UNCHANGED <<grounding_dino, sam_predictor, device, models_loaded>>
    /\ UNCHANGED <<env, primed, pc, input, shape, detections, predicts,
                   masks, mask_of, counts, persisted, released, result, steps, resize, imports,
                   assets, route, registry, load_call, health>>

\* app.py:34-47: the globals are assigned from the module, then the cache
\* release, which can raise into the handler of line 49 when CUDA is there.
LoadModelsAssign ==
    /\ boot.call = "assign"
    /\ AssignGlobals(model_loader)
    /\ UNCHANGED model_loader
    /\ \E ret \in {r \in BOOLEAN : ~r => cuda_available} :
          boot' = [boot EXCEPT !.call = "returned", !.ret = ret,
                               !.reads = Append(@, model_loader.device)]
    /\ UNCHANGED <<env, primed, pc, input, shape, detections, predicts,
                   masks, mask_of, counts, persisted, released, result, steps, resize, imports,
                   assets, route, registry, load_call, health>>

\* app.py:49-52: the import raised; the half-run module is dropped from
\* sys.modules, so the next import runs it again.
LoadModelsExcept ==
    /\ boot.call = "importing"
    /\ boot.pc = "raised"
    /\ boot' = [boot EXCEPT !.call = "returned", !.ret = FALSE, !.pc = "idle"]
    /\ UNCHANGED <<env, globals, primed, pc, input, shape, detections, predicts,
                   masks, mask_of, counts, persisted, released, result, steps, resize, imports,
                   assets, route, registry, load_call, health>>

NextBootstrap ==
    \/ load_models
    \/ BootDevice
    \/ BootImports
    \/ BootSetupDetector
    \/ BootSetupSegmenter
    \/ BootLoadDetector
    \/ BootLoadSegmenter
    \/ BootExport
    \/ LoadModelsAssign
    \/ LoadModelsExcept

\* app.py:21: the flag load_models sets once its assignments are made.
LoadWasMade(handle) == models_loaded

\* app.py:827-828: a flag of the response is whether the handle is there.
IsLoaded(handle) == handle # None

\* app.py:811-815: /health looks at the two handles first.
health_check ==
    /\ health.pc \in {"idle", "done"}
    /\ health' = [NoHealth EXCEPT !.pc = IF grounding_dino = None \/ sam_predictor = None
                                         THEN "load" ELSE "read_detector"]
    /\ UNCHANGED <<env, globals, primed, pc, input, shape, detections, predicts,
                   masks, mask_of, counts, persisted, released, result, steps, resize, imports,
                   assets, route, registry, load_call, boot>>

\* app.py:816-817: the call of load_models.
HealthCallLoad ==
    /\ health.pc = "load"
    /\ boot.call \in {"idle", "returned"}
    /\ boot.loads < MaxLoads
    /\ boot' = EnterLoadModels
    /\ health' = [health EXCEPT !.pc = "loading"]
    /\ UNCHANGED <<env, globals, primed, pc, input, shape, detections, predicts,
                   masks, mask_of, counts, persisted, released, result, steps, resize, imports,
                   assets, route, registry, load_call>>

\* app.py:817-823: load_models is back; it handles every exception itself,
\* so the handler of line 818 is never entered, and what it returned is
\* dropped.
HealthLoaded ==
    /\ health.pc = "loading"
    /\ boot.call = "returned"
    /\ health' = [health EXCEPT !.pc = "read_detector",
                                !.ret = IF boot.ret THEN "True" ELSE "False"]
    /\ UNCHANGED <<env, globals, primed, pc, input, shape, detections, predicts,
                   masks, mask_of, counts, persisted, released, result, steps, resize, imports,
                   assets, route, registry, load_call, boot>>

\* app.py:824-827: the response is built; its first flag.
HealthReadDetector ==
    /\ health.pc = "read_detector"
    /\ health' = [health EXCEPT !.pc = "read_segmenter",
                                !.models_loaded.grounding_dino = IsLoaded(grounding_dino)]
    /\ UNCHANGED <<env, globals, primed, pc, input, shape, detections, predicts,
                   masks, mask_of, counts, persisted, released, result, steps, resize, imports,
                   assets, route, registry, load_call, boot>>

\* app.py:828-833: the second flag, and the response is returned with the
\* status 'healthy'.
HealthReadSegmenter ==
    /\ health.pc = "read_segmenter"
    /\ health' = [health EXCEPT !.pc = "done", !.status = "healthy",
                                !.models_loaded.sam_predictor = IsLoaded(sam_predictor)]
    /\ UNCHANGED <<env, globals, primed, pc, input, shape, detections, predicts,
                   masks, mask_of, counts, persisted, released, result, steps, resize, imports,
                   assets, route, registry, load_call, boot>>

NextHealth ==
    \/ NextBootstrap
    \/ health_check
    \/ HealthCallLoad
    \/ HealthLoaded
    \/ HealthReadDetector
    \/ HealthReadSegmenter

\* The checkpoints and the config file as an earlier run of the process
\* left them.
InitBootstrap ==
    /\ AppInit
    /\ ResizeIdle
    /\ ImportsIdle
    /\ RouteIdle
    /\ LoadersIdle
    /\ on_disk \in [Checkpoints -> {"absent", "complete"}]
    /\ config \in BOOLEAN
    /\ setup = NoSetup

SpecBootstrap == InitBootstrap /\ [][NextBootstrap]_vars

SpecHealth == InitBootstrap /\ [][NextHealth]_vars

----
\* What the claims speak of.
Finished(p) == pc[p] = "done"
SegmenterUntouched(p) == counts[p].set_image = 0 /\ predicts[p] = << >>
DetectorUntouched(p) == counts[p].detect = 0
NothingWritten(p) == written[p] = {}
HasBoxes(p) == detections[p].is = "boxes" /\ Len(detections[p].xyxy) >= 1
BoxCenter(box) == <<(box[1] + box[3]) \div 2, (box[2] + box[4]) \div 2>>

\* C1: a call with empty image_bytes returns (None, None), and in it
\* load_models, the detector and the segmenter are not invoked and no file is
\* written.
C1_EmptyBytes ==
    \A p \in Calls :
        (Finished(p) /\ image_bytes[p] = 0) =>
            /\ result[p] = "NoneNone"
            /\ counts[p].load = 0
            /\ DetectorUntouched(p)
            /\ SegmenterUntouched(p)
            /\ NothingWritten(p)

\* The call's input is an InputError: prompt empty or blank, more than 10 MiB
\* of bytes, or a decode that gave no image or one with a zero dimension.
InputError(p) ==
    \/ prompt[p] = << >>
    \/ \A i \in 1..Len(prompt[p]) : prompt[p][i] = " "
    \/ image_bytes[p] > 10485760
    \/ counts[p].decode = 1 /\ shape[p] = NoImage

\* C2: a call whose input is an InputError (prompt empty or blank, more than
\* 10 MiB of bytes, undecodable bytes, a decoded image with a zero dimension)
\* returns (None, None) with no detector call, no segmenter call and no file.
C2_InputError ==
    \A p \in Calls :
        (Finished(p) /\ InputError(p)) =>
            /\ result[p] = "NoneNone"
            /\ DetectorUntouched(p)
            /\ SegmenterUntouched(p)
            /\ NothingWritten(p)

\* C3: no call of run_segmentation ends by propagating an exception to its
\* caller; every call ends by returning a 2-tuple.
C3_NeverRaises ==
    \A p \in Calls : Finished(p) => result[p] \in {"NoneNone", "Pair"}

\* The call's one detector call returned None or zero boxes.
DetectorFoundNothing(p) ==
    /\ counts[p].detect = 1
    /\ detections[p].is = "None" \/ (detections[p].is = "boxes" /\ detections[p].xyxy = << >>)

\* C4: when the detector returns None or zero boxes the call returns
\* (None, None), the segmenter is neither primed nor queried and no file is
\* written.
C4_NoDetection ==
    \A p \in Calls :
        DetectorFoundNothing(p) =>
            /\ Finished(p)
            /\ result[p] = "NoneNone"
            /\ SegmenterUntouched(p)
            /\ NothingWritten(p)

C4_Witness ==
    \E p, q \in Calls :
        /\ Finished(p) /\ counts[p].detect = 1 /\ detections[p].is = "None"
        /\ Finished(q) /\ counts[q].detect = 1
        /\ detections[q].is = "boxes" /\ detections[q].xyxy = << >>
        /\ result[p] = "NoneNone" /\ result[q] = "NoneNone"

\* C5: when the primary box predict raises, the call makes exactly one
\* fallback predict, with a single foreground point at the center of the
\* first detected box; and when that fallback yields a mask and both files
\* are persisted, the call returns a non-None path pair.
C5_FallbackAfterRaise ==
    \A p \in Calls :
        /\ (masks[p].primary = "raised" /\ pc[p] # "predict_point") =>
              /\ Len(predicts[p]) = 2
              /\ predicts[p][2] =
                    [kind |-> "point", at |-> BoxCenter(detections[p].xyxy[1])]
        /\ (Finished(p) /\ masks[p].primary = "raised" /\ masks[p].fallback = "mask"
                /\ written[p] = {"original", "result"}) =>
              result[p] = "Pair"

\* C6: when the primary box predict returns a None or empty mask set without
\* raising, the call goes on to the point-prompt fallback instead of ending.
C6_FallbackAfterEmpty ==
    \A p \in Calls :
        masks[p].primary = "empty" =>
            pc[p] = "predict_point" \/ masks[p].fallback # "unset"

MaskObtained(p) == masks[p].primary = "mask" \/ masks[p].fallback = "mask"

\* C7: files are written and a path pair is returned only if the detector
\* returned at least one box and the primary or the fallback predict gave a
\* mask; when the fallback raises or gives no mask the call returns
\* (None, None) and has written nothing.
C7_ArtifactsOnlyWithMask ==
    \A p \in Calls :
        /\ (written[p] # {} \/ result[p] = "Pair" \/ counts[p].persist > 0) =>
              HasBoxes(p) /\ MaskObtained(p)
        /\ masks[p].fallback \in {"raised", "empty"} =>
              Finished(p) /\ result[p] = "NoneNone" /\ NothingWritten(p)

C7_Witness ==
    \E p, q \in Calls :
        /\ Finished(p) /\ result[p] = "Pair" /\ masks[p].fallback = "mask"
        /\ written[p] = {"original", "result"}
        /\ Finished(q) /\ masks[q].fallback = "empty" /\ result[q] = "NoneNone"

\* C8: a returned path pair means both files existed at the check after the
\* writes; and when either file is missing after the two writes the call
\* returns (None, None).
C8_VerifiedPaths ==
    \A p \in Calls :
        /\ result[p] = "Pair" => written[p] = {"original", "result"}
        /\ (Finished(p) /\ counts[p].persist = 1 /\ written[p] # {"original", "result"}) =>
              result[p] = "NoneNone"

\* C9: between a call's set_image and its predict (primary or fallback) the
\* shared predictor holds that call's image, so every mask a call uses was
\* computed against its own image.
C9_PrimeThenPredict ==
    \A p \in Calls :
        /\ pc[p] \in {"input_boxes", "predict_box", "predict_point"} => primed = p
        /\ mask_of[p] \in {None, p}

\* C10: every call that returns, whichever way it ends, has performed the
\* accelerator-cache release and gc.collect step before returning.
C10_AlwaysReleases ==
    \A p \in Calls :
        (Finished(p) /\ result[p] \in {"NoneNone", "Pair"}) => released[p] >= 1

Min(a, b) == IF a <= b THEN a ELSE b

\* v is num / den to within one unit
WithinRounding(v, num, den) == (v - 1) * den <= num /\ num <= (v + 1) * den

\* C11: a decoded image whose larger dimension exceeds 2048 goes on (and is
\* persisted) with its larger dimension equal to 2048 and its smaller one
\* scaled by 2048/larger within rounding; an image whose larger dimension is
\* at most 2048 is left unresized.
C11_ResizeToMaxDim ==
    resize.is = "resized" =>
        LET larger  == Max(resize.from[1], resize.from[2])
            smaller == Min(resize.from[1], resize.from[2])
        IN  IF larger > max_dim
            THEN /\ Max(resize.to[1], resize.to[2]) = max_dim
                 /\ WithinRounding(Min(resize.to[1], resize.to[2]), smaller * max_dim, larger)
            ELSE resize.to = resize.from

\* The positions in call p's steps at which it entered the stage op.
StepsOf(p, op) == {i \in 1..Len(steps[p]) : steps[p][i].op = op}

Succeeded(p) == Finished(p) /\ result[p] = "Pair"

\* C12: in a successful call the image passed to the detector, the image
\* primed in the segmenter and the image written as the original are one
\* image, the decoded image after any downscaling, with the same dimensions;
\* the downscaling is over before the detector is called.
C12_OneImageDownstream ==
    \A p \in Calls :
        Succeeded(p) =>
            /\ \A op \in {"decode", "detect", "set_image", "persist"} : StepsOf(p, op) # {}
            /\ \A i \in StepsOf(p, "decode"), j \in 1..Len(steps[p]) :
                 steps[p][j].op \in {"detect", "set_image", "persist"}
                     => steps[p][j].image = Resized(steps[p][i].image)
            /\ \A i \in StepsOf(p, "resize"), j \in StepsOf(p, "detect") : i < j

C12_Witness ==
    \E p \in Calls : Succeeded(p) /\ StepsOf(p, "resize") # {}

\* The call ended at the readiness checks of app.py:78-89: its input was
\* accepted and the last stage it entered is one of those checks.
EndedNotReady(p) ==
    /\ Finished(p)
    /\ image_bytes[p] # 0
    /\ ~InputError(p)
    /\ steps[p] # << >>
    /\ steps[p][Len(steps[p])].op \in {"validate", "ready"}

\* C13: a call that finds PyTorch unavailable, load_models failing or either
\* handle None after its lazy load returns (None, None) without decoding the
\* image, calling the detector or the segmenter, or writing a file; and the
\* detector is only ever called while both handles are non-None.
C13_NotReadyFailsFast ==
    /\ [](\A p \in Calls :
            EndedNotReady(p) =>
                /\ result[p] = "NoneNone"
                /\ counts[p].decode = 0
                /\ DetectorUntouched(p)
                /\ SegmenterUntouched(p)
                /\ NothingWritten(p))
    /\ [][\A p \in Calls :
            counts'[p].detect > counts[p].detect
                => grounding_dino # None /\ sam_predictor # None]_vars

\* The last two import calls were calls of the same function.
CalledTwice(op) == import_calls.prev.op = op /\ import_calls.last.op = op

\* C14: calling import_grounding_dino or import_mobile_sam twice in
\* succession, nothing installed or vendored changing in between, returns the
\* same boolean both times and leaves GroundingDINO, sam_model_registry and
\* SamPredictor in the same set/unset state.
C14_ImportIdempotent ==
    \A op \in {"import_grounding_dino", "import_mobile_sam"} :
        CalledTwice(op) =>
            /\ import_calls.last.ret = import_calls.prev.ret
            /\ import_calls.last.set = import_calls.prev.set

\* An asset-setup call has ended, and the checkpoint was at its destination
\* when the call began.
EndedWithCheckpoint == setup.pc = "done" /\ setup.before \in {"partial", "complete"}

Untouched == setup.fetched = << >> /\ on_disk[setup.dest] = setup.before

\* C15 as stated: when the checkpoint file already exists, download_file_robust
\* and with it both setup functions report True (ready), with no fetch and the
\* file neither modified nor deleted.
C15_ExistingCheckpoint ==
    EndedWithCheckpoint =>
        /\ setup.ret \in {"True", "(True, config_path)"}
        /\ Untouched

\* C15: when the checkpoint file already exists, download_file_robust and
\* setup_mobile_sam_files return True, and setup_grounding_dino_files returns
\* (True, config_path) if the config file is found and (False, None) if it is
\* not; in each case nothing is fetched and the file is neither modified nor
\* deleted.
C15_ExistingCheckpointAmended ==
    EndedWithCheckpoint =>
        /\ setup.ret = IF setup.op # "setup_grounding_dino_files" THEN "True"
                       ELSE IF config THEN "(True, config_path)" ELSE "(False, None)"
        /\ Untouched

C15_Witness ==
    /\ EndedWithCheckpoint
    /\ setup.op = "setup_grounding_dino_files"
    /\ setup.ret = "(False, None)"

\* download_file_robust has returned inside the call (to its caller or to the
\* setup function around it).
Downloaded == setup.got # "pending"

FetchFailed(i) == setup.fetched[i].outcome # "complete"

\* C19: download_file_robust makes at most max_retries fetch attempts, stops
\* at the first successful one and returns True, finds no partial file at the
\* destination at any re-attempt, returns False once the last attempt has
\* failed, and every call comes to its end.
C19_BoundedRetries ==
    /\ [](/\ Len(setup.fetched) <= setup.max_retries
          /\ \A i \in 1..(Len(setup.fetched) - 1) : FetchFailed(i)
          /\ \A i \in 2..Len(setup.fetched) : setup.fetched[i].found = "absent"
          /\ (Downloaded /\ setup.fetched # << >>) =>
                IF FetchFailed(Len(setup.fetched))
                THEN setup.got = "False" /\ Len(setup.fetched) = setup.max_retries
                ELSE setup.got = "True"
          /\ (setup.pc = "fetch" /\ setup.fetched # << >>) => FetchFailed(Len(setup.fetched)))
    /\ (setup.pc # "idle") ~> (setup.pc = "done")

C19_Witness ==
    /\ setup.pc = "done"
    /\ setup.got = "True"
    /\ Len(setup.fetched) = max_retries

\* C20: download_file_robust and the two setup functions never raise; when
\* the config file cannot be found or the checkpoint cannot be obtained, a
\* destination directory that cannot be created included, they return False
\* or (False, None).
C20_SetupNeverRaises ==
    setup.pc = "done" =>
        /\ setup.ret # "raised"
        /\ (setup.got # "True" \/ (setup.op = "setup_grounding_dino_files" /\ ~config))
              => setup.ret \in {"False", "(False, None)", "(False, config_path)"}

\* The handler has answered a request for which it called run_segmentation.
Answered(p) == route[p].pc = "answered" /\ route[p].returned # "pending"

\* C16: the /segment route answers success with the two paths exactly when
\* run_segmentation returned two non-None paths and otherwise answers
\* success False with an error message; for (None, None) the message is the
\* fixed 'Could not detect the specified object...'; an exception out of
\* run_segmentation is answered as an error and does not leave the handler.
C16_RouteAnswers ==
    \A p \in Calls :
        /\ route[p].pc = "answered" =>
              IF route[p].response.success
              THEN route[p].response.paths /\ route[p].returned = "Pair"
              ELSE route[p].response.error # "" /\ ~route[p].response.paths
        /\ Answered(p) =>
              /\ route[p].response.success <=> route[p].returned = "Pair"
              /\ route[p].returned = "NoneNone" =>
                    route[p].response.error =
                        "Could not detect the specified object. Try a different prompt or image."

C16_Witness ==
    \E p \in Calls :
        /\ Answered(p)
        /\ route[p].returned = "raised"
        /\ ~route[p].response.success

\* The place of each stage in the order of steps 1-8: input validation (the
\* checks on the bytes and the prompt, then decoding and the check of the
\* decoded dimensions), capability readiness, downscaling, detection,
\* priming, primary predict, fallback predict, compositing, persistence.
StageOrder == [validate |-> 1, decode |-> 2, ready |-> 3, resize |-> 4, detect |-> 5,
               set_image |-> 6, predict_box |-> 7, predict_point |-> 8, composite |-> 9,
               persist |-> 10]

\* C17: within one call the stages are entered strictly in that order: all
\* input validation, decoding included, before the capability readiness
\* check, then downscaling, detection, priming, primary predict, fallback
\* predict, compositing and persistence.
C17_StagesInOrder ==
    \A p \in Calls :
        \A i, j \in 1..Len(steps[p]) :
            i < j => StageOrder[steps[p][i].op] < StageOrder[steps[p][j].op]

\* C18: one call invokes the detector at most once, primes the segmenter at
\* most once and calls predict at most twice, a box prompt and then at most
\* one point prompt; no stage of detection or segmentation is entered again.
C18_NoRetry ==
    \A p \in Calls :
        /\ counts[p].detect <= 1
        /\ counts[p].set_image <= 1
        /\ Len(predicts[p]) <= 2
        /\ Len(predicts[p]) >= 1 => predicts[p][1].kind = "box"
        /\ Len(predicts[p]) = 2 => predicts[p][2].kind = "point"
        /\ \A op \in {"detect", "set_image", "predict_box", "predict_point"} :
              Cardinality(StepsOf(p, op)) <= 1

C18_Witness ==
    \E p \in Calls :
        /\ Finished(p)
        /\ counts[p].detect = 1
        /\ counts[p].set_image = 1
        /\ Len(predicts[p]) = 2

\* The attempts an import function's strategies make when every one fails,
\* in order, before any vendored directory is put on sys.path.
InstalledOrder(op) ==
    IF op = "import_grounding_dino"
    THEN <<<<1, "groundingdino.util.inference">>, <<2, "groundingdino.util.inference">>,
           <<3, "groundingdino.util.inference">>, <<3, "GroundingDINO.util.inference">>,
           <<3, "grounding_dino.util.inference">>>>
    ELSE <<<<1, "mobile_sam">>, <<2, "segment_anything">>>>

\* The method that imports from the vendored directory.
LocalMethod(op) == IF op = "import_grounding_dino" THEN 4 ELSE 3

\* The attempts of call c follow the fixed order: the installed strategies
\* first, each at its place, then only attempts from vendored directories,
\* sys.path never shrinking.
InFixedOrder(c) ==
    /\ \A i \in 1..Len(c.tried) :
          IF i <= Len(InstalledOrder(c.op))
          THEN <<c.tried[i].method, c.tried[i].module>> = InstalledOrder(c.op)[i]
          ELSE c.tried[i].method = LocalMethod(c.op)
    /\ \A i \in 1..(Len(c.tried) - 1) : c.tried[i].sys_path \subseteq c.tried[i + 1].sys_path

\* C21: import_grounding_dino and import_mobile_sam try their strategies in a
\* fixed order; a strategy that fails never prevents the later ones from
\* being tried; no strategy is tried after the first that succeeds; on
\* exhaustion the function prints the installation help and returns False.
C21_StrategiesInOrder ==
    \A c \in {import_calls.prev, import_calls.last} :
        c.op # "none" =>
            /\ InFixedOrder(c)
            /\ \A i \in 1..(Len(c.tried) - 1) : c.tried[i].got = None
            /\ c.ret = (Len(c.tried) > 0 /\ c.tried[Len(c.tried)].got # None)
            /\ ~c.ret => /\ Len(c.tried) >= Len(InstalledOrder(c.op))
                         /\ c.help
            /\ c.ret => ~c.help

\* import_grounding_dino came to the end of its strategies, vendored ones
\* included, and the next call, import_mobile_sam, succeeded at its third
\* strategy after two failures.
C21_Witness ==
    /\ import_calls.prev.op = "import_grounding_dino"
    /\ ~import_calls.prev.ret
    /\ import_calls.prev.help
    /\ Len(import_calls.prev.tried) > Len(InstalledOrder("import_grounding_dino"))
    /\ import_calls.last.op = "import_mobile_sam"
    /\ import_calls.last.ret
    /\ Len(import_calls.last.tried) = 3

\* C22: if the canonical import and every package-name variant fail and the
\* vendored GroundingDINO directory exists, import_grounding_dino makes at
\* least one import attempt with that directory on sys.path before it reports
\* unavailable, whether or not the directory or its candidate sub-directories
\* were on sys.path already.
C22_VendoredTried ==
    LET c == import_calls.last
    IN  (c.op = "import_grounding_dino" /\ ~c.ret /\ GROUNDING_DINO_DIR \in host.dirs)
            => \E i \in 1..Len(c.tried) : GROUNDING_DINO_DIR \in c.tried[i].sys_path

\* A model-construction function has returned.
Loaded(op) == load_call.op = op

\* The config or checkpoint the function asks for is not on disk.
FileMissing ==
    \/ Loaded("load_grounding_dino_model")
          /\ (~config \/ on_disk["groundingdino_swint_ogc.pth"] = "absent")
    \/ Loaded("load_mobile_sam_model") /\ on_disk["mobile_sam.pt"] = "absent"

\* The class or registry the function constructs from is absent.
CapabilityAbsent ==
    \/ Loaded("load_grounding_dino_model") /\ GroundingDINO = None
    \/ Loaded("load_mobile_sam_model")
          /\ (sam_model_registry = None \/ registry = << >> \/ SamPredictor = None)

\* C23: load_grounding_dino_model and load_mobile_sam_model never raise; if
\* the capability class or registry is absent, the config or checkpoint file
\* is missing, or model construction or device placement fails, the function
\* returns None; it returns an instance only when construction succeeded.
C23_LoadersNeverRaise ==
    load_call.op # "none" =>
        /\ load_call.ret # "raised"
        /\ (CapabilityAbsent \/ FileMissing \/ load_call.fails \in {"build", "to", "predictor"})
              => load_call.ret = None
        /\ load_call.ret # None =>
              /\ load_call.fails = "none"
              /\ ~CapabilityAbsent
              /\ ~FileMissing
              /\ load_call.ret = IF Loaded("load_grounding_dino_model")
                                 THEN "model" ELSE "predictor"

\* The segmenter's device placement raised with everything else in place,
\* and the function returned None.
C23_Witness ==
    /\ Loaded("load_mobile_sam_model")
    /\ ~CapabilityAbsent
    /\ ~FileMissing
    /\ load_call.fails = "to"
    /\ load_call.ret = None

\* load_mobile_sam_model reached the choice of the variant: the components
\* are imported and the checkpoint is on disk.
ChoseVariant ==
    Loaded("load_mobile_sam_model") /\ ~CapabilityAbsent /\ ~FileMissing

\* C24: in load_mobile_sam_model, a requested sam_type that is a key of the
\* registry is the variant constructed; one that is not a key, the registry
\* being non-empty, gives the first registered variant instead of a failure;
\* with an empty registry the function returns None.
C24_VariantFallback ==
    /\ ChoseVariant =>
          LET keys == {registry[i] : i \in 1..Len(registry)}
          IN  /\ load_call.sam_type \in keys => load_call.variant = load_call.sam_type
              /\ load_call.sam_type \notin keys =>
                    /\ load_call.variant = registry[1]
                    /\ load_call.fails = "none" => load_call.ret = "predictor"
    /\ (Loaded("load_mobile_sam_model") /\ registry = << >>) =>
          load_call.ret = None /\ load_call.variant = None

\* "vit_x" was asked of a registry whose first key is "default", and the
\* predictor of the default variant was returned.
C24_Witness ==
    /\ ChoseVariant
    /\ load_call.sam_type = "vit_x"
    /\ registry[1] = "default"
    /\ load_call.variant = "default"
    /\ load_call.ret = "predictor"

\* A load_models call has returned after the accelerator probe of this
\* process answered or raised.
ProbedAndReturned == boot.call = "returned" /\ boot.probe # "none"

\* C25: the device is "cuda" when the runtime reports an accelerator usable
\* and "cpu" otherwise; when the probe itself raises, the device is "cpu",
\* the error is not propagated and the capabilities are not made
\* unavailable by it; the value is probed once and every later read gives
\* the same value.
C25_DeviceSelection ==
    /\ ProbedAndReturned =>
          /\ boot.probe = "True" => device = "cuda"
          /\ boot.probe \in {"False", "raises"} => device = "cpu"
          /\ boot.probe = "raises" => boot.pc # "idle"
    /\ boot.probes <= 1
    /\ \A i, j \in 1..Len(boot.reads) : boot.reads[i] = boot.reads[j]

\* load_models has assigned both handles: grounding_dino and sam_predictor
\* are non-None and models_loaded is set.
BothLoaded == models_loaded /\ grounding_dino # None /\ sam_predictor # None

\* Call p leaves its readiness step: load_models has returned to it.
LoadModelsReturns(p) == pc[p] = "load" /\ pc'[p] # "load"

\* C26: once load_models has returned True with grounding_dino and
\* sam_predictor both non-None, every later load_models call returns True and
\* leaves grounding_dino, sam_predictor, device and models_loaded unchanged
\* without re-running the bootstrap; run_segmentation assigns these globals
\* only through load_models.
C26_LoadedOnce ==
    [][/\ BothLoaded =>
            /\ UNCHANGED <<grounding_dino, sam_predictor, device, models_loaded, model_loader>>
            /\ \A p \in Calls : LoadModelsReturns(p) => pc'[p] = "decode"
       /\ <<grounding_dino, sam_predictor, device, models_loaded>>'
             # <<grounding_dino, sam_predictor, device, models_loaded>>
            => \E p \in Calls : LoadModelsReturns(p)]_vars

\* Both calls have been through load_models once and gone on to decoding:
\* the second of them found the models loaded.
C26_Witness ==
    /\ BothLoaded
    /\ \A p \in Calls : counts[p].load = 1 /\ pc[p] = "decode"

\* The files call p has on disk, by their paths.
FilesOf(p) == {f \in PathsOf(unique_id[p]) : f[3] \in written[p]}

\* C27: each successful run_segmentation call draws one fresh identifier
\* and writes exactly two files, static/images/<id>_original.png and
\* static/GeneratedImages/<id>_result.png, sharing that identifier; across
\* any sequence or interleaving of calls no two calls use the same
\* identifier, so no call overwrites another call's files.
C27_FreshIdentifier ==
    /\ \A p \in Calls :
          Succeeded(p) =>
              /\ counts[p].persist = 1
              /\ unique_id[p] # 0
              /\ FilesOf(p) = {<<"static/images", unique_id[p], "original">>,
                               <<"static/GeneratedImages", unique_id[p], "result">>}
    /\ \A p \in Calls :
          unique_id[p] # 0 => \E i \in 1..Len(issued) : issued[i] = unique_id[p]
    /\ \A p, q \in Calls :
          (p # q /\ unique_id[p] # 0 /\ unique_id[q] # 0) => FilesOf(p) \cap FilesOf(q) = {}
    /\ \A i, j \in 1..Len(issued) : i # j => issued[i] # issued[j]

\* Two interleaved calls have both succeeded, each with its own identifier.
C27_Witness ==
    /\ \A p \in Calls : Succeeded(p)
    /\ unique_id["A"] # unique_id["B"]

\* C28: in a successful run_segmentation call the mask is requested for the
\* first detected box only and exactly one mask is kept, while the annotated
\* image receives one rectangle and one prompt label for every box the
\* detector returned.
C28_OneMaskAllBoxes ==
    \A p \in Calls :
        Succeeded(p) =>
            /\ \A i \in 1..Len(predicts[p]) :
                  predicts[p][i].at = IF predicts[p][i].kind = "box"
                                      THEN detections[p].xyxy[1]
                                      ELSE BoxCenter(detections[p].xyxy[1])
            /\ (masks[p].primary = "mask") # (masks[p].fallback = "mask")
            /\ counts[p].rectangles = Len(detections[p].xyxy)
            /\ counts[p].labels = Len(detections[p].xyxy)

\* A call succeeded on detections of two boxes: one predict, for the first
\* box, and two rectangles with their labels.
C28_Witness ==
    \E p \in Calls :
        /\ Succeeded(p)
        /\ Len(detections[p].xyxy) = MaxBoxes
        /\ predicts[p] = <<[kind |-> "box", at |-> detections[p].xyxy[1]]>>
        /\ counts[p].rectangles = MaxBoxes

\* download_file_robust has returned, to its caller or into a setup function.
DownloadReturned == setup.got \in {"True", "False"}

\* C29: download_file_robust returns True only if the destination holds a
\* completely fetched file; after a call that returned False because every
\* attempt failed no partial file is left at the destination, so a later
\* call does not report the checkpoint as already existing and ready.
C29_NoPartialLeft ==
    DownloadReturned =>
        /\ setup.got = "True" => on_disk[setup.dest] = "complete"
        /\ (setup.got = "False" /\ setup.fetched # << >>) => on_disk[setup.dest] # "partial"

\* C30: for every decodable image with positive width and height the
\* downscaling step produces a target size with both dimensions at least 1,
\* so a valid image, one of extreme aspect ratio such as 1 x 5000 included,
\* is never rejected because of resizing.
C30_TargetAtLeastOne ==
    (resize.is # "decoded" /\ resize.from[1] >= 1 /\ resize.from[2] >= 1) =>
        /\ resize.is = "resized"
        /\ resize.to[1] >= 1
        /\ resize.to[2] >= 1

\* C31: import_grounding_dino returns True if and only if the GroundingDINO
\* global is non-None when it returns, and import_mobile_sam returns True if
\* and only if sam_model_registry and SamPredictor are both set; the two SAM
\* globals are always assigned together from the same package, never one
\* without the other.
C31_ReturnMatchesGlobals ==
    /\ import_calls.last.op = "import_grounding_dino" =>
          import_calls.last.ret = (GroundingDINO # None)
    /\ import_calls.last.op = "import_mobile_sam" =>
          import_calls.last.ret = (sam_model_registry # None /\ SamPredictor # None)
    /\ sam_model_registry = SamPredictor

\* import_grounding_dino has failed and left GroundingDINO None, and then
\* import_mobile_sam succeeded with both globals from segment_anything.
C31_Witness ==
    /\ import_calls.prev.op = "import_grounding_dino"
    /\ ~import_calls.prev.ret
    /\ GroundingDINO = None
    /\ import_calls.last.op = "import_mobile_sam"
    /\ import_calls.last.ret
    /\ sam_model_registry = "segment_anything"
    /\ SamPredictor = "segment_anything"

\* The functions the current run of the bootstrap has called so far.
BootRan == {boot.ran[i] : i \in 1..Len(boot.ran)}

\* The bootstrap sequence of lines 363-419 is over: it reached the exports
\* or an exception left it.
BootOver == "imports" \in BootRan /\ boot.pc \in {"export", "done", "raised", "idle"}

\* C32: in the bootstrap sequence the detector is constructed only if its
\* import succeeded, its checkpoint is ready and a config path was found,
\* and the segmenter only if its import succeeded and its checkpoint is
\* ready; a failure of one capability never keeps the other from being set
\* up and loaded, and the sequence always runs to its end.
C32_BootstrapGates ==
    /\ "load_grounding_dino_model" \in BootRan => DetectorGate
    /\ "load_mobile_sam_model" \in BootRan => SegmenterGate
    /\ BootOver =>
          /\ boot.grounding_dino_available => "setup_grounding_dino_files" \in BootRan
          /\ boot.mobile_sam_available => "setup_mobile_sam_files" \in BootRan
          /\ DetectorGate => "load_grounding_dino_model" \in BootRan
          /\ SegmenterGate => "load_mobile_sam_model" \in BootRan
    /\ "imports" \in BootRan => boot.pc # "raised"

\* The call of p is over and handed a value back to its caller.
HasReturned(p) == Finished(p) /\ result[p] # "raised"

\* C33: whatever run_segmentation returns is (None, None) or a pair of two
\* paths, both non-None; it never returns a pair with exactly one None.
C33_PairOrNothing ==
    \A p \in Calls :
        HasReturned(p) =>
            /\ result[p] \in {"NoneNone", "Pair"}
            /\ result[p] = "Pair" =>
                  /\ unique_id[p] # 0
                  /\ original_filename(unique_id[p]) # None
                  /\ result_filename(unique_id[p]) # None

C33_Witness ==
    \E p, q \in Calls :
        /\ HasReturned(p) /\ result[p] = "Pair"
        /\ HasReturned(q) /\ result[q] = "NoneNone" /\ detections[q].is = "boxes"

\* /health has built its response.
Responded == health.pc = "done"

\* C34: health_check never raises and reports 'healthy' whenever no
\* exception occurred while it ran, also after load_models returned False
\* or with a handle still None; each 'models_loaded' flag is whether its
\* handle is non-None at the moment the flag is taken.
C34_HealthReport ==
    [][/\ Responded' => health'.status = "healthy"
       /\ health'.status \in {"none", "healthy"}
       /\ (health.pc = "read_detector" /\ health'.pc = "read_segmenter") =>
             health'.models_loaded.grounding_dino = (grounding_dino # None)
       /\ (health.pc = "read_segmenter" /\ Responded') =>
             health'.models_loaded.sam_predictor = (sam_predictor # None)]_vars

C34_Witness ==
    /\ Responded
    /\ health.status = "healthy"
    /\ health.ret = "False"
    /\ models_loaded
    /\ grounding_dino = None /\ ~health.models_loaded.grounding_dino
    /\ sam_predictor # None /\ health.models_loaded.sam_predictor
====
